---- MODULE Spec2Model ----
(***************************************************************************)
(* Document-structure engine of the spec compiler: include resolver,      *)
(* section scanner and structure builder (package parser).                *)
(*                                                                         *)
(* A file is a sequence of lines, a line is a sequence of one-character    *)
(* strings (what bufio.Scanner hands to the scanners).  Files live in one  *)
(* directory "/" and are keyed by their absolute path.                     *)
(***************************************************************************)
EXTENDS Integers, Sequences, FiniteSets, TLC

\* ------------------------------------------------------------------ bounds
NumFiles == 3
MaxDirectives == 3
MaxChmod == 1
MaxLines == 3
MaxChars == 6
MaxTextLines == 3
MaxSections == 2
MaxRenderLines == 5
MaxTempDirs == 4

\* ------------------------------------------------------------ characters
Names == <<"A", "B", "C", "D", "E", "F">>

\* \s of Go's regexp (RE2): [\t\n\f\r ]
RegexSpace == {" ", "\t", "\n", "\f", "\r"}

\* unicode.IsSpace restricted to ASCII, as used by strings.TrimSpace
UnicodeSpace == {" ", "\t", "\n", "\f", "\r"}

\* [a-zA-Z0-9_-] restricted to the characters that occur in the model
NameChars == {"a", "g", "t", "A", "B", "C", "D", "E", "F", "_", "-"}

Alphabet == {"=", " ", "a"}

Nil == [nil |-> TRUE]

Min(S) == CHOOSE x \in S : \A y \in S : x <= y
Max(S) == CHOOSE x \in S : \A y \in S : x >= y

\* strings.TrimSpace
TrimSpace(s) ==
    LET keep == {i \in 1..Len(s) : s[i] \notin UnicodeSpace}
    IN  IF keep = {} THEN <<>> ELSE SubSeq(s, Min(keep), Max(keep))

\* strings.HasPrefix
HasPrefix(s, p) == Len(s) >= Len(p) /\ SubSeq(s, 1, Len(p)) = p

\* filepath.IsAbs (unix)
IsAbs(p) == Len(p) >= 1 /\ p[1] = "/"

\* filepath.Dir of an absolute path of the form "/name"
Dir(p) ==
    LET slashes == {i \in 1..Len(p) : p[i] = "/"}
    IN  IF slashes = {} THEN <<".">>
        ELSE IF Max(slashes) = 1 THEN <<"/">>
        ELSE SubSeq(p, 1, Max(slashes) - 1)

\* filepath.Join(baseDir, p) for a clean baseDir and a plain file name
Join(baseDir, p) ==
    IF baseDir = <<"/">> THEN <<"/">> \o p ELSE baseDir \o <<"/">> \o p

AbsPathOf(i) == <<"/", Names[i]>>
AbsPaths == {AbsPathOf(i) : i \in 1..NumFiles}
Root == AbsPathOf(1)

\* ------------------------------------------------------- include resolver
IncludePrefix == <<"i", "n", "c", "l", "u", "d", "e", ":", ":">>
TagPrefix == <<"t", "a", "g", "=">>

\* includePattern: ^include::([^\[]+)\[(.*)\]$
includePattern(line) ==
    IF ~HasPrefix(line, IncludePrefix) THEN Nil
    ELSE LET rest == SubSeq(line, Len(IncludePrefix) + 1, Len(line))
             br   == {i \in 1..Len(rest) : rest[i] = "["}
         IN  IF br = {} THEN Nil
             ELSE LET p == Min(br)
                  IN  IF p >= 2 /\ Len(rest) >= p + 1 /\ rest[Len(rest)] = "]"
                      THEN [path    |-> SubSeq(rest, 1, p - 1),
                            options |-> SubSeq(rest, p + 1, Len(rest) - 1)]
                      ELSE Nil

\* tagPattern.FindAllStringSubmatch: tag=([a-zA-Z0-9_-]+), leftmost,
\* non-overlapping, scanning from position i
RECURSIVE FindAllTags(_, _)
FindAllTags(opts, i) ==
    IF i + Len(TagPrefix) > Len(opts) THEN <<>>
    ELSE IF SubSeq(opts, i, i + Len(TagPrefix) - 1) = TagPrefix
            /\ opts[i + Len(TagPrefix)] \in NameChars
         THEN LET from == i + Len(TagPrefix)
                  stop == {j \in from..Len(opts) : opts[j] \notin NameChars}
                  to   == IF stop = {} THEN Len(opts) ELSE Min(stop) - 1
              IN  <<SubSeq(opts, from, to)>> \o FindAllTags(opts, to + 1)
         ELSE FindAllTags(opts, i + 1)

\* ExtractIncludes: one IncludeInfo per matching (trimmed) line, in order
RECURSIVE ExtractIncludesFrom(_, _)
ExtractIncludesFrom(lines, lineNum) ==
    IF lineNum > Len(lines) THEN <<>>
    ELSE LET m == includePattern(TrimSpace(lines[lineNum]))
         IN  IF m = Nil THEN ExtractIncludesFrom(lines, lineNum + 1)
             ELSE <<[Path |-> m.path, Line |-> lineNum,
                     Tags |-> FindAllTags(m.options, 1)]>>
                  \o ExtractIncludesFrom(lines, lineNum + 1)

ExtractIncludes(lines) == ExtractIncludesFrom(lines, 1)

ResolveIncludePath(baseDir, includePath) ==
    IF IsAbs(includePath) THEN includePath ELSE Join(baseDir, includePath)

\* ExtractIncludesFromFile on a file that could be read
ExtractIncludesFromFile(filePath, lines) ==
    LET incs == ExtractIncludes(lines)
    IN  [k \in 1..Len(incs) |->
            [Path |-> incs[k].Path, Line |-> incs[k].Line, Tags |-> incs[k].Tags,
             SourceFile |-> filePath,
             AbsPath |-> ResolveIncludePath(Dir(filePath), incs[k].Path)]]


\* ------------------------------------------------------ attribute scanner
\* attrDefPattern: ^:([a-zA-Z0-9_-]+):\s*(.*)$
attrDefPattern(line) ==
    IF Len(line) < 3 \/ line[1] # ":" THEN Nil
    ELSE LET stop == {j \in 2..Len(line) : line[j] \notin NameChars}
         IN  IF stop = {} THEN Nil
             ELSE LET c == Min(stop)
                  IN  IF c >= 3 /\ line[c] = ":"
                      THEN [name |-> SubSeq(line, 2, c - 1),
                            rest |-> SubSeq(line, c + 1, Len(line))]
                      ELSE Nil

\* ExtractAttributesFromFile on a file that could be read
RECURSIVE ExtractAttributesFrom(_, _, _)
ExtractAttributesFrom(filePath, lines, lineNum) ==
    IF lineNum > Len(lines) THEN <<>>
    ELSE LET m == attrDefPattern(lines[lineNum])
         IN  IF m = Nil THEN ExtractAttributesFrom(filePath, lines, lineNum + 1)
             ELSE <<[Name |-> m.name, Value |-> TrimSpace(m.rest),
                     FilePath |-> filePath, Line |-> lineNum]>>
                  \o ExtractAttributesFrom(filePath, lines, lineNum + 1)

ExtractAttributesFromFile(filePath, lines) ==
    ExtractAttributesFrom(filePath, lines, 1)

\* the loop "structure.Attributes[attr.Name] = attr": the last one wins
AttributeMap(attrs) ==
    [n \in {attrs[k].Name : k \in 1..Len(attrs)} |->
        attrs[Max({k \in 1..Len(attrs) : attrs[k].Name = n})]]

\* -------------------------------------------------------- section scanner
\* length of the longest prefix of s made of characters of set
LeadingRun(s, set) ==
    LET stop == {j \in 1..Len(s) : s[j] \notin set}
    IN  IF stop = {} THEN Len(s) ELSE Min(stop) - 1

\* the pattern without its ^ anchor on the markers: ^\s*(=+)\s+(.+)$
sectionPatternIndented(line) ==
    LET t == SubSeq(line, LeadingRun(line, RegexSpace) + 1, Len(line))
        n == LeadingRun(t, {"="})
        w == LeadingRun(SubSeq(t, n + 1, Len(t)), RegexSpace)
    IN  IF n = 0 \/ w = 0 THEN Nil
        ELSE IF n + w < Len(t)
             THEN [markers |-> SubSeq(t, 1, n),
                   text    |-> SubSeq(t, n + w + 1, Len(t))]
        ELSE IF w >= 2
             THEN [markers |-> SubSeq(t, 1, n),
                   text    |-> SubSeq(t, Len(t), Len(t))]
        ELSE Nil

\* sectionPattern: ^(=+)\s+(.+)$ ; both repetitions are greedy, \s+ gives
\* back one character when nothing else is left for (.+)
sectionPattern(line) ==
    LET n == LeadingRun(line, {"="})
        w == LeadingRun(SubSeq(line, n + 1, Len(line)), RegexSpace)
    IN  IF n = 0 \/ w = 0 THEN Nil
        ELSE IF n + w < Len(line)
             THEN [markers |-> SubSeq(line, 1, n),
                   text    |-> SubSeq(line, n + w + 1, Len(line))]
        ELSE IF w >= 2
             THEN [markers |-> SubSeq(line, 1, n),
                   text    |-> SubSeq(line, Len(line), Len(line))]
        ELSE Nil

\* the level without the "- 1"
SectionLevelRaw(markers) == Len(markers)

SectionLevel(markers) == Len(markers) - 1

\* the previous section closed on the new heading line itself
CloseSectionLate(sections, lineNum) ==
    IF sections = <<>> THEN sections
    ELSE [sections EXCEPT ![Len(sections)].EndLine = lineNum]

\* "prevSection.EndLine = lineNum - 1"
CloseSection(sections, lineNum) ==
    IF sections = <<>> THEN sections
    ELSE [sections EXCEPT ![Len(sections)].EndLine = lineNum - 1]

\* the scan loop of ExtractSectionsFromFile from line lineNum on
RECURSIVE ScanSections(_, _, _, _)
ScanSections(filePath, lines, lineNum, sections) ==
    IF lineNum > Len(lines) THEN sections
    ELSE LET m == sectionPattern(lines[lineNum])
         IN  IF m = Nil THEN ScanSections(filePath, lines, lineNum + 1, sections)
             ELSE ScanSections(filePath, lines, lineNum + 1,
                    Append(CloseSection(sections, lineNum),
                           [Title     |-> TrimSpace(m.text),
                            Level     |-> SectionLevel(m.markers),
                            FilePath  |-> filePath,
                            StartLine |-> lineNum,
                            EndLine   |-> -1]))

\* ExtractSectionsFromFile on a file that could be read
ExtractSectionsFromFile(filePath, lines) == ScanSections(filePath, lines, 1, <<>>)

\* filepath.Base of an absolute path
Base(p) ==
    LET slashes == {i \in 1..Len(p) : p[i] = "/"}
    IN  IF slashes = {} THEN p ELSE SubSeq(p, Max(slashes) + 1, Len(p))

\* -------------------------------------------------------------- the state
VARIABLES
    fs,        \* file system: absolute path -> lines of the file
    readable,  \* files that os.Open / os.ReadFile can currently open
    chmods,    \* number of permission changes made so far
    op,        \* the exported function being executed
    pc,        \* position inside it
    visited,   \* visited map of collectIncludes / buildNodeRecursive
    files,     \* *files slice of collectIncludes
    stack,     \* call stack of the recursion, innermost frame last
    failed,    \* reads that returned an error during the call
    structure, \* the SpecStructure under construction in BuildStructure
    idx,       \* loop index over files in BuildStructure
    ret,       \* value returned by the call
    err        \* TRUE when the call returned a non-nil error

vars == <<fs, readable, chmods, op, pc, visited, files, stack, failed,
          structure, idx, ret, err>>

callVars == <<op, pc, visited, files, stack, failed, structure, idx, ret, err>>

TotalLines == LET RECURSIVE Sum(_)
                  Sum(S) == IF S = {} THEN 0
                            ELSE LET f == CHOOSE f \in S : TRUE
                                 IN  Len(fs[f]) + Sum(S \ {f})
              IN  Sum(AbsPaths)

\* "include::<path>[<options>]" naming file i: even files are written with
\* an absolute path, every third file with a tag filter
IncludeLine(i) ==
    IncludePrefix
    \o (IF i % 2 = 0 THEN AbsPathOf(i) ELSE <<Names[i]>>)
    \o <<"[">> \o (IF i % 3 = 0 THEN TagPrefix \o <<"t">> ELSE <<>>) \o <<"]">>

HeadingLine == <<"=", " ", "a">>

InitCall ==
    /\ op = "none"
    /\ pc = "idle"
    /\ visited = {}
    /\ files = <<>>
    /\ stack = <<>>
    /\ failed = {}
    /\ structure = Nil
    /\ idx = 0
    /\ ret = Nil
    /\ err = FALSE

Init ==
    /\ fs = [f \in AbsPaths |-> <<>>]
    /\ readable = AbsPaths
    /\ chmods = 0
    /\ InitCall

\* ------------------------------------------------------------ environment
\* an editor appends an include directive to a file
WriteInclude(f, i) ==
    /\ pc = "idle"
    /\ TotalLines < MaxDirectives
    /\ fs' = [fs EXCEPT ![f] = Append(@, IncludeLine(i))]
    /\ UNCHANGED <<readable, chmods, callVars>>

\* a file becomes unreadable (or readable again), also while a call runs
Chmod(f) ==
    /\ pc # "done"
    /\ chmods < MaxChmod
    /\ chmods' = chmods + 1
    /\ readable' = IF f \in readable THEN readable \ {f} ELSE readable \cup {f}
    /\ UNCHANGED <<fs, callVars>>

\* ------------------------------------------------------- GetIncludedFiles
Frame(f) == [file |-> f, incs |-> ExtractIncludesFromFile(f, fs[f]), i |-> 1]

Top == stack[Len(stack)]

\* entry of collectIncludes(root): the visited check cannot hit on an empty
\* map; a read error of the start file is returned to the caller
CollectRoot ==
    /\ visited' = {Root}
    /\ files' = <<>>
    /\ IF Root \in readable
       THEN /\ stack' = <<Frame(Root)>>
            /\ pc' = "collect"
            /\ UNCHANGED <<failed, ret, err>>
       ELSE /\ stack' = <<>>
            /\ failed' = failed \cup {[file |-> Root, at |-> "collect", idx |-> 0]}
            /\ ret' = Nil
            /\ err' = TRUE
            /\ pc' = "done"

GetIncludedFiles ==
    /\ pc = "idle"
    /\ op' = "GetIncludedFiles"
    /\ CollectRoot
    /\ UNCHANGED <<fs, readable, chmods, structure, idx>>

\* the append made only for a target that can be opened
CollectAppendReadable(f) == IF f \in readable THEN Append(files, f) ELSE files

\* "*files = append(*files, inc.AbsPath)"
CollectAppend(f) == Append(files, f)

\* one iteration of the loop of collectIncludes: the append, then the
\* recursive call up to its own loop (visited check, mark, read)

CollectNext ==
    /\ pc = "collect"
    /\ Top.i <= Len(Top.incs)
    /\ LET inc  == Top.incs[Top.i].AbsPath
           here == [stack EXCEPT ![Len(stack)].i = @ + 1]
       IN  /\ files' = CollectAppend(inc)
           /\ IF inc \in visited
              THEN /\ stack' = here
                   /\ UNCHANGED <<visited, failed>>
              ELSE /\ visited' = visited \cup {inc}
                   /\ IF inc \in readable
                      THEN /\ stack' = Append(here, Frame(inc))
                           /\ UNCHANGED failed
                      ELSE /\ stack' = here
                           /\ failed' = failed \cup
                                {[file |-> inc, at |-> "collect", idx |-> Len(files') ]}
    /\ UNCHANGED <<fs, readable, chmods, op, pc, structure, idx, ret, err>>

\* the loop of collectIncludes is over: return nil to the caller
CollectReturn ==
    /\ pc = "collect"
    /\ Top.i > Len(Top.incs)
    /\ stack' = SubSeq(stack, 1, Len(stack) - 1)
    /\ IF Len(stack) > 1
       THEN UNCHANGED <<pc, ret, err, structure>>
       ELSE IF op = "GetIncludedFiles"
            THEN /\ pc' = "done"
                 /\ ret' = [files |-> files]
                 /\ err' = FALSE
                 /\ UNCHANGED structure
            ELSE /\ pc' = "rootsections"
                 /\ structure' = [structure EXCEPT !.Files = files]
                 /\ UNCHANGED <<ret, err>>
    /\ UNCHANGED <<fs, readable, chmods, op, visited, files, failed, idx>>

Environment ==
    \/ \E f \in AbsPaths, i \in 1..NumFiles : WriteInclude(f, i)
    \/ \E f \in AbsPaths : Chmod(f)

NextFiles ==
    \/ Environment
    \/ GetIncludedFiles
    \/ CollectNext
    \/ CollectReturn

SpecFiles == Init /\ [][NextFiles]_vars

\* ------------------------------------------------------- BuildIncludeTree
NewNode(filePath, tags) ==
    [Path |-> Base(filePath), AbsPath |-> filePath, Tags |-> tags,
     Includes |-> <<>>]

\* the append without the nil check
AppendChildUnchecked(includes, child) == Append(includes, child)

\* "if child != nil { node.Includes = append(node.Includes, child) }"
AppendChild(includes, child) ==
    IF child # Nil THEN Append(includes, child) ELSE includes

\* the read error handed to the caller, which then skips the directive
UnreadableNodeDropped(filePath, tags) == Nil

\* "return node, nil // File might not exist, return partial node"
UnreadableNode(filePath, tags) == NewNode(filePath, tags)

TreeFrame(f, tags) ==
    [file |-> f, incs |-> ExtractIncludesFromFile(f, fs[f]), i |-> 1,
     node |-> NewNode(f, tags)]

\* BuildIncludeTree and the entry of buildNodeRecursive(root, nil)
BuildIncludeTree ==
    /\ pc = "idle"
    /\ op' = "BuildIncludeTree"
    /\ visited' = {Root}
    /\ IF Root \in readable
       THEN /\ stack' = <<TreeFrame(Root, <<>>)>>
            /\ pc' = "build"
            /\ UNCHANGED <<failed, ret>>
       ELSE /\ stack' = <<>>
            /\ failed' = failed \cup {[file |-> Root, at |-> "build", idx |-> 0]}
            /\ ret' = UnreadableNode(Root, <<>>)
            /\ pc' = "done"
    /\ err' = FALSE
    /\ UNCHANGED <<fs, readable, chmods, files, structure, idx>>

\* one iteration of the loop of buildNodeRecursive whose callee returns at
\* once: the target is already visited (nil) or cannot be read (bare node)
BuildLeaf ==
    /\ pc = "build"
    /\ Top.i <= Len(Top.incs)
    /\ LET inc == Top.incs[Top.i]
       IN  /\ inc.AbsPath \in visited \/ inc.AbsPath \notin readable
           /\ IF inc.AbsPath \in visited
              THEN /\ stack' = [stack EXCEPT
                          ![Len(stack)].i = @ + 1,
                          ![Len(stack)].node.Includes = AppendChild(@, Nil)]
                   /\ UNCHANGED <<visited, failed>>
              ELSE /\ visited' = visited \cup {inc.AbsPath}
                   /\ failed' = failed \cup
                        {[file |-> inc.AbsPath, at |-> "build", idx |-> 0]}
                   /\ stack' = [stack EXCEPT
                          ![Len(stack)].i = @ + 1,
                          ![Len(stack)].node.Includes =
                              AppendChild(@, UnreadableNode(inc.AbsPath, inc.Tags))]
    /\ UNCHANGED <<fs, readable, chmods, op, pc, files, structure, idx, ret, err>>

\* one iteration whose callee is entered: first visit of a readable file
BuildDescend ==
    /\ pc = "build"
    /\ Top.i <= Len(Top.incs)
    /\ LET inc == Top.incs[Top.i]
       IN  /\ inc.AbsPath \notin visited
           /\ inc.AbsPath \in readable
           /\ visited' = visited \cup {inc.AbsPath}
           /\ stack' = Append([stack EXCEPT ![Len(stack)].i = @ + 1],
                              TreeFrame(inc.AbsPath, inc.Tags))
    /\ UNCHANGED <<fs, readable, chmods, op, pc, files, failed, structure, idx,
                   ret, err>>

\* the loop of buildNodeRecursive is over: the node goes to the caller
BuildReturn ==
    /\ pc = "build"
    /\ Top.i > Len(Top.incs)
    /\ IF Len(stack) > 1
       THEN /\ stack' = [SubSeq(stack, 1, Len(stack) - 1) EXCEPT
                           ![Len(stack) - 1].node.Includes = AppendChild(@, Top.node)]
            /\ UNCHANGED <<pc, ret>>
       ELSE /\ stack' = <<>>
            /\ ret' = Top.node
            /\ pc' = "done"
    /\ UNCHANGED <<fs, readable, chmods, op, visited, files, failed, structure,
                   idx, err>>

NextTree ==
    \/ Environment
    \/ BuildIncludeTree
    \/ BuildLeaf
    \/ BuildDescend
    \/ BuildReturn

SpecTree == Init /\ [][NextTree]_vars

\* --------------------------------------------------------- BuildStructure
\* an editor appends a heading line to a file
WriteHeading(f) ==
    /\ pc = "idle"
    /\ TotalLines < MaxDirectives
    /\ fs' = [fs EXCEPT ![f] = Append(@, HeadingLine)]
    /\ UNCHANGED <<readable, chmods, callVars>>

\* the structure built so far returned together with the error
AbortPartial(at) ==
    /\ failed' = failed \cup {[file |-> Root, at |-> at, idx |-> 0]}
    /\ ret' = structure
    /\ err' = TRUE
    /\ pc' = "done"

\* "return nil, err"
Abort(at) ==
    /\ failed' = failed \cup {[file |-> Root, at |-> at, idx |-> 0]}
    /\ ret' = Nil
    /\ err' = TRUE
    /\ pc' = "done"

\* BuildStructure up to the attribute loop
BuildStructure ==
    /\ pc = "idle"
    /\ op' = "BuildStructure"
    /\ IF Root \in readable
       THEN /\ structure' =
                [ManifestPath |-> Root,
                 Attributes   |-> AttributeMap(ExtractAttributesFromFile(Root, fs[Root])),
                 Includes     |-> <<>>,
                 Sections     |-> <<>>,
                 Files        |-> <<>>]
            /\ pc' = "includes"
            /\ UNCHANGED <<failed, ret, err>>
       ELSE /\ Abort("attributes")
            /\ UNCHANGED structure
    /\ UNCHANGED <<fs, readable, chmods, visited, files, stack, idx>>

\* "Extract includes from manifest"
StructureIncludes ==
    /\ pc = "includes"
    /\ IF Root \in readable
       THEN /\ structure' = [structure EXCEPT
                               !.Includes = ExtractIncludesFromFile(Root, fs[Root])]
            /\ pc' = "files"
            /\ UNCHANGED <<failed, ret, err>>
       ELSE /\ Abort("includes")
            /\ UNCHANGED structure
    /\ UNCHANGED <<fs, readable, chmods, op, visited, files, stack, idx>>

\* "Get all included files recursively": GetIncludedFiles is entered
StructureFiles ==
    /\ pc = "files"
    /\ CollectRoot
    /\ UNCHANGED <<fs, readable, chmods, op, structure, idx>>

\* the new sections put in front of the list
PrependSections(sections, more) == more \o sections

\* "structure.Sections = append(structure.Sections, sections...)"
AppendSections(sections, more) == sections \o more

\* "Extract sections from manifest"
StructureRootSections ==
    /\ pc = "rootsections"
    /\ IF Root \in readable
       THEN /\ structure' = [structure EXCEPT
                               !.Sections = AppendSections(@,
                                   ExtractSectionsFromFile(Root, fs[Root]))]
            /\ pc' = "sections"
            /\ idx' = 1
            /\ UNCHANGED <<failed, ret, err>>
       ELSE /\ Abort("rootsections")
            /\ UNCHANGED <<structure, idx>>
    /\ UNCHANGED <<fs, readable, chmods, op, visited, files, stack>>

\* one iteration of "for _, filePath := range files"
StructureFileSections ==
    /\ pc = "sections"
    /\ idx <= Len(structure.Files)
    /\ LET filePath == structure.Files[idx]
       IN  IF filePath \in readable
           THEN /\ structure' = [structure EXCEPT
                      !.Sections = AppendSections(@,
                          ExtractSectionsFromFile(filePath, fs[filePath]))]
                /\ UNCHANGED failed
           ELSE /\ failed' = failed \cup
                     {[file |-> filePath, at |-> "sections", idx |-> idx]}
                /\ UNCHANGED structure
    /\ idx' = idx + 1
    /\ UNCHANGED <<fs, readable, chmods, op, pc, visited, files, stack, ret, err>>

\* "return structure, nil"
StructureReturn ==
    /\ pc = "sections"
    /\ idx > Len(structure.Files)
    /\ ret' = structure
    /\ err' = FALSE
    /\ pc' = "done"
    /\ UNCHANGED <<fs, readable, chmods, op, visited, files, stack, failed,
                   structure, idx>>

NextStructure ==
    \/ Environment
    \/ \E f \in AbsPaths : WriteHeading(f)
    \/ BuildStructure
    \/ StructureIncludes
    \/ StructureFiles
    \/ CollectNext
    \/ CollectReturn
    \/ StructureRootSections
    \/ StructureFileSections
    \/ StructureReturn

SpecStructure == Init /\ [][NextStructure]_vars

\* ------------------------------------------------ ExtractSectionsFromFile
TotalChars == LET RECURSIVE Sum(_)
                  Sum(k) == IF k = 0 THEN 0 ELSE Len(fs[Root][k]) + Sum(k - 1)
              IN  Sum(Len(fs[Root]))

\* an editor starts a new line in the manifest, empty or with a heading
NewLine(markers) ==
    /\ pc = "idle"
    /\ Len(fs[Root]) < MaxLines
    /\ fs' = [fs EXCEPT ![Root] =
                Append(@, IF markers = 0 THEN <<>>
                          ELSE [k \in 1..markers |-> "="] \o <<" ", "a">>)]
    /\ UNCHANGED <<readable, chmods, callVars>>

\* an editor types one character at the end of the manifest
TypeChar(c) ==
    /\ pc = "idle"
    /\ fs[Root] # <<>>
    /\ TotalChars < MaxChars
    /\ fs' = [fs EXCEPT ![Root][Len(fs[Root])] = Append(@, c)]
    /\ UNCHANGED <<readable, chmods, callVars>>

\* a call ExtractSectionsFromFile(manifest)
ScanManifest ==
    /\ pc = "idle"
    /\ op' = "ExtractSectionsFromFile"
    /\ IF Root \in readable
       THEN /\ ret' = [sections |-> ExtractSectionsFromFile(Root, fs[Root])]
            /\ err' = FALSE
            /\ UNCHANGED failed
       ELSE /\ ret' = Nil
            /\ err' = TRUE
            /\ failed' = failed \cup {[file |-> Root, at |-> "scan", idx |-> 0]}
    /\ pc' = "done"
    /\ UNCHANGED <<fs, readable, chmods, visited, files, stack, structure, idx>>

NextSections ==
    \/ \E m \in 0..2 : NewLine(m)
    \/ \E c \in Alphabet : TypeChar(c)
    \/ ScanManifest

SpecSections == Init /\ [][NextSections]_vars

\* ------------------------------------------------------ GetSectionContent
\* strings.Join(lines, "\n")
RECURSIVE JoinLines(_)
JoinLines(lines) ==
    IF lines = <<>> THEN <<>>
    ELSE IF Len(lines) = 1 THEN lines[1]
    ELSE lines[1] \o <<"\n">> \o JoinLines(Tail(lines))

\* the break test without its "EndLine > 0" guard
PastEndUnguarded(section, lineNum) == lineNum > section.EndLine

\* "section.EndLine > 0 && lineNum > section.EndLine"
PastEnd(section, lineNum) == section.EndLine > 0 /\ lineNum > section.EndLine

\* the loop "for scanner.Scan()" after lineNum lines have been scanned
RECURSIVE CollectLines(_, _, _, _)
CollectLines(section, lines, lineNum, acc) ==
    IF lineNum >= Len(lines) THEN acc
    ELSE LET n == lineNum + 1
         IN  IF n >= section.StartLine
             THEN IF PastEnd(section, n) THEN acc
                  ELSE CollectLines(section, lines, n, Append(acc, lines[n]))
             ELSE CollectLines(section, lines, n, acc)

\* GetSectionContent on a file that could be opened
GetSectionContent(section, lines) ==
    JoinLines(CollectLines(section, lines, 0, <<>>))

\* a call GetSectionContent(&sections[k]) on a section of the last scan
ReadSection(k) ==
    /\ pc = "done"
    /\ op = "ExtractSectionsFromFile"
    /\ ret # Nil
    /\ k \in 1..Len(ret.sections)
    /\ op' = "GetSectionContent"
    /\ LET section == ret.sections[k]
       IN  IF section.FilePath \in readable
           THEN /\ ret' = [section |-> section,
                           content |-> GetSectionContent(section, fs[section.FilePath])]
                /\ err' = FALSE
                /\ UNCHANGED failed
           ELSE /\ ret' = [section |-> section, content |-> <<>>]
                /\ err' = TRUE
                /\ failed' = failed \cup
                      {[file |-> section.FilePath, at |-> "content", idx |-> k]}
    /\ UNCHANGED <<fs, readable, chmods, pc, visited, files, stack, structure, idx>>

NextContent ==
    \/ \E m \in 0..2 : NewLine(m)
    \/ \E c \in Alphabet : TypeChar(c)
    \/ ScanManifest
    \/ \E k \in 1..MaxLines : ReadSection(k)

SpecContent == Init /\ [][NextContent]_vars

\* ------------------------------------------- attribute and reference scans
\* os.ReadFile: the bytes of a file, every line ended by a newline
RECURSIVE FileContent(_)
FileContent(lines) ==
    IF lines = <<>> THEN <<>>
    ELSE Head(lines) \o <<"\n">> \o FileContent(Tail(lines))

\* strings.Split(content, "\n")
RECURSIVE Split(_)
Split(content) ==
    LET nl == {i \in 1..Len(content) : content[i] = "\n"}
    IN  IF nl = {} THEN <<content>>
        ELSE <<SubSeq(content, 1, Min(nl) - 1)>>
             \o Split(SubSeq(content, Min(nl) + 1, Len(content)))

\* bufio.ScanLines: the lines of content without their line ends; a final
\* empty line is no token and one trailing "\r" is dropped
ScanLines(content) ==
    LET parts == Split(content)
        toks  == IF parts[Len(parts)] = <<>>
                 THEN SubSeq(parts, 1, Len(parts) - 1) ELSE parts
    IN  [k \in 1..Len(toks) |->
            IF toks[k] # <<>> /\ toks[k][Len(toks[k])] = "\r"
            THEN SubSeq(toks[k], 1, Len(toks[k]) - 1) ELSE toks[k]]

\* the first declaration of a name kept
FirstDeclared(ks) == Min(ks)

\* "attrs[name] = value" executed in line order: the last declaration stays
LastDeclared(ks) == Max(ks)

\* ExtractAttributes: name -> trimmed value
ExtractAttributes(content) ==
    LET lines == ScanLines(content)
        decl  == {k \in 1..Len(lines) : attrDefPattern(lines[k]) # Nil}
        names == {attrDefPattern(lines[k]).name : k \in decl}
    IN  [n \in names |->
            TrimSpace(attrDefPattern(
                lines[LastDeclared({k \in decl :
                                      attrDefPattern(lines[k]).name = n})]).rest)]

\* strings.TrimLeft(s, "= ")
TrimLeftMarkers(s) == SubSeq(s, LeadingRun(s, {"=", " "}) + 1, Len(s))

\* "Track current section from headings"
TrackSection(currentSection, line) ==
    IF HasPrefix(line, <<"=">>) THEN TrimSpace(TrimLeftMarkers(line))
    ELSE currentSection

\* strings.Contains, and regexp.MatchString of a quoted literal
Contains(s, sub) ==
    \E i \in 1..(Len(s) - Len(sub) + 1) : SubSeq(s, i, i + Len(sub) - 1) = sub

\* the pattern \{ + QuoteMeta(attrName) + \}
RefLiteral(attrName) == <<"{">> \o attrName \o <<"}">>

\* the loop of FindAttributeUsages from line index lineNum (0-based) on
RECURSIVE UsagesFrom(_, _, _, _, _)
UsagesFrom(lines, filePath, attrName, lineNum, currentSection) ==
    IF lineNum >= Len(lines) THEN <<>>
    ELSE LET line == lines[lineNum + 1]
             sec  == TrackSection(currentSection, line)
         IN  (IF Contains(line, RefLiteral(attrName))
              THEN <<[Name         |-> attrName,
                      FilePath     |-> filePath,
                      Line         |-> lineNum + 1,
                      Context      |-> TrimSpace(line),
                      SectionTitle |-> sec]>>
              ELSE <<>>)
             \o UsagesFrom(lines, filePath, attrName, lineNum + 1, sec)

FindAttributeUsages(content, filePath, attrName) ==
    UsagesFrom(Split(content), filePath, attrName, 0, <<>>)

\* attrRefPattern.FindAllStringSubmatch(line, -1): \{([a-zA-Z0-9_-]+)\},
\* leftmost, non-overlapping, scanning from position i; the names matched
RECURSIVE FindAllRefs(_, _)
FindAllRefs(line, i) ==
    IF i + 2 > Len(line) THEN <<>>
    ELSE IF line[i] = "{" /\ line[i + 1] \in NameChars
         THEN LET stop == {j \in (i + 1)..Len(line) : line[j] \notin NameChars}
              IN  IF stop # {} /\ line[Min(stop)] = "}"
                  THEN <<SubSeq(line, i + 1, Min(stop) - 1)>>
                       \o FindAllRefs(line, Min(stop) + 1)
                  ELSE FindAllRefs(line, i + 1)
         ELSE FindAllRefs(line, i + 1)

\* the loop of FindAllAttributeUsages from line index lineNum (0-based) on
RECURSIVE AllUsagesFrom(_, _, _, _)
AllUsagesFrom(lines, filePath, lineNum, currentSection) ==
    IF lineNum >= Len(lines) THEN <<>>
    ELSE LET line    == lines[lineNum + 1]
             sec     == TrackSection(currentSection, line)
             matches == FindAllRefs(line, 1)
         IN  [m \in 1..Len(matches) |->
                 [Name         |-> matches[m],
                  FilePath     |-> filePath,
                  Line         |-> lineNum + 1,
                  Context      |-> TrimSpace(line),
                  SectionTitle |-> sec]]
             \o AllUsagesFrom(lines, filePath, lineNum + 1, sec)

FindAllAttributeUsages(content, filePath) ==
    AllUsagesFrom(Split(content), filePath, 0, <<>>)

\* the lines an author writes in the scanned text
TextLines ==
    {<<>>,
     <<":", "a", ":", " ", "g", " ">>,
     <<":", "a", ":">>,
     <<":", "a", ":", "g">>,
     <<" ", ":", "a", ":", " ", "g">>,
     <<":", "a", " ", "g">>,
     <<":", "g", ":", " ", "{", "a", "}">>,
     <<"{", "a", "}", "{", "a", "}">>,
     <<"=", " ", "a">>,
     <<"=", "=", " ", "{", "a", "}", " ", "{", "g", "}">>,
     <<"=", "a">>,
     <<" ", "{", "a", "}", " ">>,
     <<"{", "a">>}

\* attribute names asked for
RefNames == {<<"a">>, <<"g">>}

\* an author appends a line to the text
WriteText(line) ==
    /\ pc = "idle"
    /\ Len(fs[Root]) < MaxTextLines
    /\ fs' = [fs EXCEPT ![Root] = Append(@, line)]
    /\ UNCHANGED <<readable, chmods, callVars>>

\* a call of a scanner that reads no file, returning value
ScanCall(name, value) ==
    /\ pc = "idle"
    /\ op' = name
    /\ ret' = value
    /\ err' = FALSE
    /\ pc' = "done"
    /\ UNCHANGED <<fs, readable, chmods, visited, files, stack, failed,
                   structure, idx>>

ExtractAttributesCall ==
    ScanCall("ExtractAttributes",
             [attrs |-> ExtractAttributes(FileContent(fs[Root]))])

ExtractAttributesFromFileCall ==
    /\ Root \in readable
    /\ ScanCall("ExtractAttributesFromFile",
                [defs |-> ExtractAttributesFromFile(Root, fs[Root])])

FindAttributeUsagesCall(attrName) ==
    ScanCall("FindAttributeUsages",
             [name   |-> attrName,
              usages |-> FindAttributeUsages(FileContent(fs[Root]), Root, attrName)])

FindAllAttributeUsagesCall ==
    ScanCall("FindAllAttributeUsages",
             [usages |-> FindAllAttributeUsages(FileContent(fs[Root]), Root)])

NextText ==
    \/ \E line \in TextLines : WriteText(line)
    \/ ExtractAttributesCall
    \/ ExtractAttributesFromFileCall
    \/ \E attrName \in RefNames : FindAttributeUsagesCall(attrName)
    \/ FindAllAttributeUsagesCall

SpecText == Init /\ [][NextText]_vars

\* ------------------------------------------------- attribute impact lookup
\* an editor appends ":a: <file name>", a declaration of attribute a, to
\* file f
WriteAttribute(f) ==
    /\ pc = "idle"
    /\ TotalLines < MaxDirectives
    /\ fs' = [fs EXCEPT ![f] = Append(@, <<":", "a", ":", " ">> \o Base(f))]
    /\ UNCHANGED <<readable, chmods, callVars>>

\* an editor appends "{a}", a reference to attribute a, to a file
WriteReference(f) ==
    /\ pc = "idle"
    /\ TotalLines < MaxDirectives
    /\ fs' = [fs EXCEPT ![f] = Append(@, <<"{", "a", "}">>)]
    /\ UNCHANGED <<readable, chmods, callVars>>

\* the reference finder run over the entries k.. of a file list, an entry
\* that cannot be read giving nothing
RECURSIVE ScanFiles(_, _, _)
ScanFiles(list, k, attrName) ==
    IF k > Len(list) THEN <<>>
    ELSE (IF list[k] \in readable
          THEN FindAttributeUsages(FileContent(fs[list[k]]), list[k], attrName)
          ELSE <<>>)
         \o ScanFiles(list, k + 1, attrName)

\* usages grouped by file, the groups in the order in which their files
\* first occur
RECURSIVE GroupByFile(_, _)
GroupByFile(usages, seen) ==
    IF usages = <<>> THEN <<>>
    ELSE LET f == Head(usages).FilePath
         IN  IF f \in seen THEN GroupByFile(Tail(usages), seen)
             ELSE <<[FilePath |-> f,
                     Usages   |-> SelectSeq(usages, LAMBDA u : u.FilePath = f)]>>
                  \o GroupByFile(Tail(usages), seen \cup {f})

\* the impact of attrName in a built structure: its definition, if the
\* attribute map has one, and the usages found in the manifest and in every
\* entry of Files
AnalyzeAttribute(s, attrName) ==
    LET usages == ScanFiles(<<s.ManifestPath>> \o s.Files, 1, attrName)
    IN  [Name       |-> attrName,
         Definition |-> IF attrName \in DOMAIN s.Attributes
                        THEN s.Attributes[attrName] ELSE Nil,
         Usages     |-> usages,
         ByFile     |-> GroupByFile(usages, {})]

\* a call of the impact lookup on the structure just built
AnalyzeAttributeCall(attrName) ==
    /\ pc = "done"
    /\ op = "BuildStructure"
    /\ ~err
    /\ op' = "AnalyzeAttribute"
    /\ ret' = AnalyzeAttribute(structure, attrName)
    /\ UNCHANGED <<fs, readable, chmods, pc, visited, files, stack, failed,
                   structure, idx, err>>

NextImpact ==
    \/ \E f \in AbsPaths : \E i \in 1..NumFiles : WriteInclude(f, i)
    \/ \E f \in AbsPaths : WriteAttribute(f)
    \/ \E f \in AbsPaths : WriteReference(f)
    \/ BuildStructure
    \/ StructureIncludes
    \/ StructureFiles
    \/ CollectNext
    \/ CollectReturn
    \/ StructureRootSections
    \/ StructureFileSections
    \/ StructureReturn
    \/ \E attrName \in RefNames : AnalyzeAttributeCall(attrName)

SpecImpact == Init /\ [][NextImpact]_vars

\* ------------------------------------------------------------ FindSection
\* strings.ToLower on the letters of the model
ToLower(s) ==
    [k \in 1..Len(s) |->
        CASE s[k] = "A" -> "a" [] s[k] = "B" -> "b" [] s[k] = "C" -> "c"
          [] s[k] = "D" -> "d" [] s[k] = "E" -> "e" [] s[k] = "F" -> "f"
          [] OTHER -> s[k]]

\* strings.HasSuffix
HasSuffix(s, suffix) ==
    Len(s) >= Len(suffix) /\ SubSeq(s, Len(s) - Len(suffix) + 1, Len(s)) = suffix

\* the query compared as typed, without strings.TrimSpace
NormalizeQueryUntrimmed(query) == ToLower(query)

\* "query = strings.ToLower(strings.TrimSpace(query))"
NormalizeQuery(query) == ToLower(TrimSpace(query))

\* "Exact title match"
TitleEquals(section, query) == ToLower(section.Title) = query

\* "File path match (ends with query)"
PathEndsWith(section, query) == HasSuffix(ToLower(section.FilePath), query)

\* "Partial title match"
TitleContains(section, query) == Contains(ToLower(section.Title), query)

\* the loop "for i := range structure.Sections" from index i on; the
\* returned pointer is the index together with the section it points to
RECURSIVE FindSectionFrom(_, _, _)
FindSectionFrom(sections, i, query) ==
    IF i > Len(sections) THEN Nil
    ELSE IF TitleEquals(sections[i], query)
         THEN [index |-> i, section |-> sections[i]]
    ELSE IF PathEndsWith(sections[i], query)
         THEN [index |-> i, section |-> sections[i]]
    ELSE IF TitleContains(sections[i], query)
         THEN [index |-> i, section |-> sections[i]]
    ELSE FindSectionFrom(sections, i + 1, query)

FindSection(s, query) == FindSectionFrom(s.Sections, 1, NormalizeQuery(query))

\* section titles and queries of the callers
Titles == {<<"A">>, <<"a", " ", "b">>, <<"B">>}
Queries == {<<"a">>, <<" ", "A", " ">>, <<"b">>, <<"a", " ", "b">>, <<"/", "b">>, <<"d">>, <<>>}

\* a caller adds a section to the structure it hands to FindSection, at
\* first a structure literal with no section, as in TestFindSection
AddSection(title, filePath) ==
    /\ pc = "idle"
    /\ LET s == IF structure = Nil
                THEN [ManifestPath |-> Root, Attributes |-> <<>>,
                      Includes |-> <<>>, Sections |-> <<>>, Files |-> <<>>]
                ELSE structure
       IN  /\ Len(s.Sections) < MaxSections
           /\ structure' =
                 [s EXCEPT !.Sections = Append(@,
                     [Title |-> title, Level |-> 1, FilePath |-> filePath,
                      StartLine |-> 0, EndLine |-> 0])]
    /\ UNCHANGED <<fs, readable, chmods, op, pc, visited, files, stack, failed,
                   idx, ret, err>>

\* a call FindSection(structure, query)
FindSectionCall(query) ==
    /\ pc = "idle"
    /\ structure # Nil
    /\ op' = "FindSection"
    /\ ret' = [query |-> query, found |-> FindSection(structure, query)]
    /\ err' = FALSE
    /\ pc' = "done"
    /\ UNCHANGED <<fs, readable, chmods, visited, files, stack, failed,
                   structure, idx>>

NextFind ==
    \/ \E title \in Titles : \E filePath \in AbsPaths : AddSection(title, filePath)
    \/ \E query \in Queries : FindSectionCall(query)

SpecFind == Init /\ [][NextFind]_vars

\* ------------------------------------------- diffmatchpatch (sergi/go-diff)
\* A Diff is [Type, Text]; Text is a sequence of runes.  Offsets are
\* 0-based as in the library, so rune number x of r is r[x + 1].
DiffDelete == "delete"
DiffInsert == "insert"
DiffEqual == "equal"

Diff(type, text) == [Type |-> type, Text |-> text]

\* s[:n] and s[n:]
Take(s, n) == SubSeq(s, 1, n)
Drop(s, n) == SubSeq(s, n + 1, Len(s))

\* commonPrefixLength
CommonPrefixLength(a, b) ==
    LET m    == IF Len(a) < Len(b) THEN Len(a) ELSE Len(b)
        stop == {n \in 1..m : a[n] # b[n]}
    IN  IF stop = {} THEN m ELSE Min(stop) - 1

\* commonSuffixLength
CommonSuffixLength(a, b) ==
    LET m    == IF Len(a) < Len(b) THEN Len(a) ELSE Len(b)
        stop == {n \in 1..m : a[Len(a) - n + 1] # b[Len(b) - n + 1]}
    IN  IF stop = {} THEN m ELSE Min(stop) - 1

\* runesIndexOf(target, pattern, i): offset of the first occurrence of a
\* non-empty pattern at or after offset i, -1 when there is none
RunesIndexOf(target, pattern, i) ==
    LET at == {j \in i..(Len(target) - Len(pattern)) :
                  SubSeq(target, j + 1, j + Len(pattern)) = pattern}
    IN  IF at = {} THEN -1 ELSE Min(at)

\* splice(slice, index, amount, elements...)
Splice(slice, index, amount, elements) ==
    Take(slice, index) \o elements \o Drop(slice, index + amount)

\* DiffCleanupMerge
RECURSIVE DiffCleanupMerge(_)
DiffCleanupMerge(input) ==
    LET \* first loop of DiffCleanupMerge, one iteration: runs of edits are merged
        \* into one delete and one insert, their common prefix and suffix moved into
        \* the neighbouring equalities, adjacent equalities joined
        MergeStep(st) ==
            LET diffs       == st.diffs
                pointer     == st.pointer
                countDelete == st.countDelete
                countInsert == st.countInsert
                textDelete  == st.textDelete
                textInsert  == st.textInsert
                d           == diffs[pointer + 1]
                reset(ds, p) == [diffs |-> ds, pointer |-> p, countDelete |-> 0,
                                 countInsert |-> 0, textDelete |-> <<>>,
                                 textInsert |-> <<>>]
            IN  IF d.Type = DiffInsert
                THEN [st EXCEPT !.pointer = @ + 1, !.countInsert = @ + 1,
                                !.textInsert = @ \o d.Text]
                ELSE IF d.Type = DiffDelete
                THEN [st EXCEPT !.pointer = @ + 1, !.countDelete = @ + 1,
                                !.textDelete = @ \o d.Text]
                ELSE IF countDelete + countInsert > 1
                THEN LET both  == countDelete # 0 /\ countInsert # 0
                         pre   == IF both THEN CommonPrefixLength(textInsert, textDelete)
                                  ELSE 0
                         x     == pointer - countDelete - countInsert
                         grow  == pre # 0 /\ x > 0 /\ diffs[x].Type = DiffEqual
                         d1    == IF pre = 0 THEN diffs
                                  ELSE IF grow
                                  THEN [diffs EXCEPT ![x].Text = @ \o Take(textInsert, pre)]
                                  ELSE <<Diff(DiffEqual, Take(textInsert, pre))>> \o diffs
                         p1    == IF pre # 0 /\ ~grow THEN pointer + 1 ELSE pointer
                         ins1  == Drop(textInsert, pre)
                         del1  == Drop(textDelete, pre)
                         suf   == IF both THEN CommonSuffixLength(ins1, del1) ELSE 0
                         d2    == IF suf = 0 THEN d1
                                  ELSE [d1 EXCEPT ![p1 + 1].Text =
                                           Drop(ins1, Len(ins1) - suf) \o @]
                         ins2  == Take(ins1, Len(ins1) - suf)
                         del2  == Take(del1, Len(del1) - suf)
                         d3    == IF countDelete = 0
                                  THEN Splice(d2, p1 - countInsert,
                                              countDelete + countInsert,
                                              <<Diff(DiffInsert, ins2)>>)
                                  ELSE IF countInsert = 0
                                  THEN Splice(d2, p1 - countDelete,
                                              countDelete + countInsert,
                                              <<Diff(DiffDelete, del2)>>)
                                  ELSE Splice(d2, p1 - countDelete - countInsert,
                                              countDelete + countInsert,
                                              <<Diff(DiffDelete, del2),
                                                Diff(DiffInsert, ins2)>>)
                         p3    == p1 - countDelete - countInsert + 1
                                  + (IF countDelete # 0 THEN 1 ELSE 0)
                                  + (IF countInsert # 0 THEN 1 ELSE 0)
                     IN  reset(d3, p3)
                ELSE IF pointer # 0 /\ diffs[pointer].Type = DiffEqual
                THEN reset(Splice([diffs EXCEPT ![pointer].Text = @ \o d.Text],
                                  pointer, 1, <<>>), pointer)
                ELSE reset(diffs, pointer + 1)
        \* "for pointer < len(diffs)" around MergeStep
        RECURSIVE MergePass(_)
        MergePass(st) ==
            IF st.pointer >= Len(st.diffs) THEN st.diffs ELSE MergePass(MergeStep(st))
        \* second loop of DiffCleanupMerge, one iteration: a single edit between
        \* two equalities is shifted over the equality it ends or starts with
        ShiftStep(st) ==
            LET diffs   == st.diffs
                pointer == st.pointer
                prev    == diffs[pointer]
                cur     == diffs[pointer + 1]
                next    == diffs[pointer + 2]
            IN  IF prev.Type = DiffEqual /\ next.Type = DiffEqual
                THEN IF Len(cur.Text) >= Len(prev.Text)
                        /\ Drop(cur.Text, Len(cur.Text) - Len(prev.Text)) = prev.Text
                     THEN [diffs |->
                             Splice([diffs EXCEPT
                                       ![pointer + 1].Text =
                                           prev.Text \o Take(cur.Text,
                                                             Len(cur.Text) - Len(prev.Text)),
                                       ![pointer + 2].Text = prev.Text \o next.Text],
                                    pointer - 1, 1, <<>>),
                           pointer |-> pointer + 1, changes |-> TRUE]
                     ELSE IF Len(cur.Text) >= Len(next.Text)
                             /\ Take(cur.Text, Len(next.Text)) = next.Text
                     THEN [diffs |->
                             Splice([diffs EXCEPT
                                       ![pointer].Text = prev.Text \o next.Text,
                                       ![pointer + 1].Text =
                                           Drop(cur.Text, Len(next.Text)) \o next.Text],
                                    pointer + 1, 1, <<>>),
                           pointer |-> pointer + 1, changes |-> TRUE]
                     ELSE [st EXCEPT !.pointer = @ + 1]
                ELSE [st EXCEPT !.pointer = @ + 1]
        \* "for pointer < len(diffs)-1" around ShiftStep
        RECURSIVE ShiftPass(_)
        ShiftPass(st) ==
            IF st.pointer >= Len(st.diffs) - 1 THEN st ELSE ShiftPass(ShiftStep(st))
        \* "Remove the dummy entry at the end"
        TrimDummy(diffs) ==
            IF diffs[Len(diffs)].Text = <<>> THEN Take(diffs, Len(diffs) - 1) ELSE diffs
        \* "If shifts were made, the diff needs reordering and another shift sweep"
        SweepAgain(shifted) ==
            IF shifted.changes THEN DiffCleanupMerge(shifted.diffs) ELSE shifted.diffs
    IN  SweepAgain(
            ShiftPass([diffs   |-> TrimDummy(
                                     MergePass([diffs |-> Append(input, Diff(DiffEqual, <<>>)),
                                                pointer |-> 0, countDelete |-> 0,
                                                countInsert |-> 0, textDelete |-> <<>>,
                                                textInsert |-> <<>>])),
                       pointer |-> 1,
                       changes |-> FALSE]))

\* diffHalfMatch with DiffTimeout > 0 (the default of New())
DiffHalfMatch(text1, text2) ==
    LET \* the five parts of a half match: the common middle of length
        \* suffixLength + prefixLength around offsets i and j, and what is left
        HalfMatchParts(l, s, i, j, prefixLength, suffixLength) ==
            [longA  |-> Take(l, i - suffixLength),
             longB  |-> Drop(l, i + prefixLength),
             shortA |-> Take(s, j - suffixLength),
             shortB |-> Drop(s, j + prefixLength),
             common |-> SubSeq(s, j - suffixLength + 1, j + prefixLength)]
        \* the common text around offsets i of l and j of s
        CommonAround(l, s, i, j) ==
            CommonPrefixLength(Drop(l, i), Drop(s, j))
            + CommonSuffixLength(Take(l, i), Take(s, j))
        \* the first occurrence of the seed with the longest common text around it
        BestSeed(l, s, i, at) ==
            LET top == Max({CommonAround(l, s, i, j) : j \in at})
            IN  Min({j \in at : CommonAround(l, s, i, j) = top})
        \* "if len(bestCommon)*2 >= len(l)"
        HalfMatchAt(l, s, i, j) ==
            IF CommonAround(l, s, i, j) * 2 < Len(l) THEN Nil
            ELSE HalfMatchParts(l, s, i, j,
                                CommonPrefixLength(Drop(l, i), Drop(s, j)),
                                CommonSuffixLength(Take(l, i), Take(s, j)))
        \* the offsets in s at which seed occurs
        SeedOffsets(s, seed) ==
            {j \in 0..(Len(s) - Len(seed)) : SubSeq(s, j + 1, j + Len(seed)) = seed}
        \* the loop of diffHalfMatchI over the occurrences at
        HalfMatchOver(l, s, i, at) ==
            IF at = {} THEN Nil ELSE HalfMatchAt(l, s, i, BestSeed(l, s, i, at))
        \* diffHalfMatchI: the longest common substring around the quarter-length
        \* seed at offset i of the longer text, nil when shorter than half of it
        DiffHalfMatchI(l, s, i) ==
            HalfMatchOver(l, s, i, SeedOffsets(s, SubSeq(l, i + 1, i + (Len(l) \div 4))))
        \* "Both matched. Select the longest."
        LongerCommon(hm1, hm2) ==
            IF hm1 = Nil /\ hm2 = Nil THEN Nil
            ELSE IF hm2 = Nil THEN hm1
            ELSE IF hm1 = Nil THEN hm2
            ELSE IF Len(hm1.common) > Len(hm2.common) THEN hm1
            ELSE hm2
        \* "A half-match was found, sort out the return data."
        Oriented(hm, swap) ==
            IF hm = Nil THEN Nil
            ELSE IF swap
            THEN [text1A |-> hm.longA, text1B |-> hm.longB,
                  text2A |-> hm.shortA, text2B |-> hm.shortB,
                  common |-> hm.common]
            ELSE [text1A |-> hm.shortA, text1B |-> hm.shortB,
                  text2A |-> hm.longA, text2B |-> hm.longB,
                  common |-> hm.common]
        \* diffHalfMatch on the longer text l and the shorter text s
        HalfMatchOf(l, s) ==
            IF Len(l) < 4 \/ Len(s) * 2 < Len(l) THEN Nil
            ELSE LongerCommon(DiffHalfMatchI(l, s, (Len(l) + 3) \div 4),
                              DiffHalfMatchI(l, s, (Len(l) + 1) \div 2))
    IN  IF Len(text1) > Len(text2)
        THEN Oriented(HalfMatchOf(text1, text2), TRUE)
        ELSE Oriented(HalfMatchOf(text2, text1), FALSE)

RECURSIVE DiffMainRunes(_, _)

\* diffBisect: Myers' middle snake, then both halves
DiffBisect(runes1, runes2) ==
    LET \* diffBisectSplit
        DiffBisectSplit(x, y) ==
            DiffMainRunes(Take(runes1, x), Take(runes2, y))
            \o DiffMainRunes(Drop(runes1, x), Drop(runes2, y))
        \* diffBisect, "Walk the front path one step": one iteration of the loop
        \* over k1; st holds d, k1, v1, v2 and the four loop offsets
        BisectFront(st) ==
            LET n1      == Len(runes1)
                n2      == Len(runes2)
                maxD    == (n1 + n2 + 1) \div 2
                vOffset == maxD
                vLength == 2 * maxD
                delta   == n1 - n2
                front   == delta % 2 # 0
                d       == st.d
                k1      == st.k
            IN  IF k1 > d - st.k1end
                THEN [st EXCEPT !.phase = "reverse", !.k = -d + st.k2start]
                ELSE LET k1Offset == vOffset + k1
                         x0 == IF k1 = -d
                                  \/ (k1 # d /\ st.v1[k1Offset - 1] < st.v1[k1Offset + 1])
                               THEN st.v1[k1Offset + 1]
                               ELSE st.v1[k1Offset - 1] + 1
                         y0 == x0 - k1
                         run == IF x0 < n1 /\ y0 < n2
                                THEN CommonPrefixLength(Drop(runes1, x0), Drop(runes2, y0))
                                ELSE 0
                         x1 == x0 + run
                         y1 == y0 + run
                         st1 == [st EXCEPT !.v1[k1Offset] = x1, !.k = @ + 2]
                         k2Offset == vOffset + delta - k1
                     IN  IF x1 > n1 THEN [st1 EXCEPT !.k1end = @ + 2]
                         ELSE IF y1 > n2 THEN [st1 EXCEPT !.k1start = @ + 2]
                         ELSE IF front /\ k2Offset >= 0 /\ k2Offset < vLength
                                 /\ st1.v2[k2Offset] # -1
                                 /\ x1 >= n1 - st1.v2[k2Offset]
                         THEN [st1 EXCEPT !.phase = "split", !.x = x1, !.y = y1]
                         ELSE st1
        \* diffBisect, "Walk the reverse path one step": one iteration of the loop
        \* over k2, and after the last one the next d
        BisectReverse(st) ==
            LET n1      == Len(runes1)
                n2      == Len(runes2)
                maxD    == (n1 + n2 + 1) \div 2
                vOffset == maxD
                vLength == 2 * maxD
                delta   == n1 - n2
                front   == delta % 2 # 0
                d       == st.d
                k2      == st.k
            IN  IF k2 > d - st.k2end
                THEN IF d + 1 < maxD
                     THEN [st EXCEPT !.phase = "front", !.d = d + 1,
                                     !.k = -(d + 1) + st.k1start]
                     ELSE [st EXCEPT !.phase = "none"]
                ELSE LET k2Offset == vOffset + k2
                         x0 == IF k2 = -d
                                  \/ (k2 # d /\ st.v2[k2Offset - 1] < st.v2[k2Offset + 1])
                               THEN st.v2[k2Offset + 1]
                               ELSE st.v2[k2Offset - 1] + 1
                         y0 == x0 - k2
                         run == IF x0 < n1 /\ y0 < n2
                                THEN CommonSuffixLength(Take(runes1, n1 - x0),
                                                        Take(runes2, n2 - y0))
                                ELSE 0
                         x2 == x0 + run
                         y2 == y0 + run
                         st1 == [st EXCEPT !.v2[k2Offset] = x2, !.k = @ + 2]
                         k1Offset == vOffset + delta - k2
                     IN  IF x2 > n1 THEN [st1 EXCEPT !.k2end = @ + 2]
                         ELSE IF y2 > n2 THEN [st1 EXCEPT !.k2start = @ + 2]
                         ELSE IF ~front /\ k1Offset >= 0 /\ k1Offset < vLength
                                 /\ st1.v1[k1Offset] # -1
                                 /\ st1.v1[k1Offset] >= n1 - x2
                         THEN [st1 EXCEPT !.phase = "split", !.x = st1.v1[k1Offset],
                                          !.y = vOffset + st1.v1[k1Offset] - k1Offset]
                         ELSE st1
        \* "for k1 := -d + k1start; k1 <= d-k1end; k1 += 2"
        RECURSIVE FrontLoop(_)
        FrontLoop(st) ==
            IF st.phase # "front" THEN st
            ELSE FrontLoop(BisectFront(st))
        \* "for k2 := -d + k2start; k2 <= d-k2end; k2 += 2"
        RECURSIVE ReverseLoop(_)
        ReverseLoop(st) ==
            IF st.phase # "reverse" THEN st
            ELSE ReverseLoop(BisectReverse(st))
        \* "for d := 0; d < maxD; d++", until the paths overlap ("split") or
        \* every d is used up ("none")
        RECURSIVE BisectWalk(_)
        BisectWalk(st) ==
            IF st.phase \in {"split", "none"} THEN st
            ELSE BisectWalk(ReverseLoop(FrontLoop(st)))
    IN  LET maxD == (Len(runes1) + Len(runes2) + 1) \div 2
            v    == [k \in 0..(2 * maxD - 1) |-> IF k = maxD + 1 THEN 0 ELSE -1]
            end  == BisectWalk([phase |-> IF maxD > 0 THEN "front" ELSE "none",
                                d |-> 0, k |-> 0, v1 |-> v, v2 |-> v,
                                k1start |-> 0, k1end |-> 0,
                                k2start |-> 0, k2end |-> 0, x |-> 0, y |-> 0])
        IN  IF end.phase = "split"
            THEN DiffBisectSplit(end.x, end.y)
            ELSE <<Diff(DiffDelete, runes1), Diff(DiffInsert, runes2)>>

\* diffCompute from "Check to see if the problem can be split in two" on
ComputeHalves(text1, text2, hm) ==
    IF hm # Nil
    THEN DiffMainRunes(hm.text1A, hm.text2A)
         \o <<Diff(DiffEqual, hm.common)>>
         \o DiffMainRunes(hm.text1B, hm.text2B)
    ELSE DiffBisect(text1, text2)

\* diffCompute when the shorter text occurs at offset i of the longer
\* one (-1: nowhere); edit is the type of what surrounds it
ComputeInside(text1, text2, longtext, shorttext, edit, i) ==
    IF i # -1
    THEN <<Diff(edit, Take(longtext, i)),
           Diff(DiffEqual, shorttext),
           Diff(edit, Drop(longtext, i + Len(shorttext)))>>
    ELSE IF Len(shorttext) = 1
    THEN <<Diff(DiffDelete, text1), Diff(DiffInsert, text2)>>
    ELSE ComputeHalves(text1, text2, DiffHalfMatch(text1, text2))

\* diffCompute on texts without common prefix and suffix (checklines false)
DiffCompute(text1, text2) ==
    IF Len(text1) = 0 THEN <<Diff(DiffInsert, text2)>>
    ELSE IF Len(text2) = 0 THEN <<Diff(DiffDelete, text1)>>
    ELSE IF Len(text1) > Len(text2)
    THEN ComputeInside(text1, text2, text1, text2, DiffDelete,
                       RunesIndexOf(text1, text2, 0))
    ELSE ComputeInside(text1, text2, text2, text1, DiffInsert,
                       RunesIndexOf(text2, text1, 0))

\* diffMainRunes
DiffMainRunes(text1, text2) ==
    IF text1 = text2
    THEN IF Len(text1) > 0 THEN <<Diff(DiffEqual, text1)>> ELSE <<>>
    ELSE LET pre  == CommonPrefixLength(text1, text2)
             a1   == Drop(text1, pre)
             b1   == Drop(text2, pre)
             suf  == CommonSuffixLength(a1, b1)
             a2   == Take(a1, Len(a1) - suf)
             b2   == Take(b1, Len(b1) - suf)
             core == DiffCompute(a2, b2)
         IN  DiffCleanupMerge(
                (IF pre # 0 THEN <<Diff(DiffEqual, Take(text1, pre))>> ELSE <<>>)
                \o core
                \o (IF suf # 0 THEN <<Diff(DiffEqual, Drop(a1, Len(a1) - suf))>>
                    ELSE <<>>))

\* DiffMain(text1, text2, false)
DiffMain(text1, text2) == DiffMainRunes(text1, text2)

\* ------------------------------------------------------------------ differ
\* strings.Count(s, "\n")
CountNewlines(s) == Cardinality({k \in 1..Len(s) : s[k] = "\n"})

\* DiffLinesToChars: every distinct line gets a rune, its index in
\* lineArray, whose entry 0 is the empty string
DiffLinesToChars(text1, text2) ==
    LET \* the lines of text, each with its line end; a last line may lack one
        RECURSIVE LineAtoms(_)
        LineAtoms(text) ==
            LET nl == {i \in 1..Len(text) : text[i] = "\n"}
            IN  IF text = <<>> THEN <<>>
                ELSE IF nl = {} THEN <<text>>
                ELSE <<Take(text, Min(nl))>> \o LineAtoms(Drop(text, Min(nl)))
        \* the distinct elements of s in the order of their first occurrence
        RECURSIVE Distinct(_)
        Distinct(s) ==
            IF s = <<>> THEN <<>>
            ELSE LET rest == Distinct(Take(s, Len(s) - 1))
                     last == s[Len(s)]
                 IN  IF \E k \in 1..Len(rest) : rest[k] = last THEN rest
                     ELSE Append(rest, last)
    IN  LET lines1    == LineAtoms(text1)
            lines2    == LineAtoms(text2)
            lineArray == Distinct(<<<<>>>> \o lines1 \o lines2)
            rune(l)   == (CHOOSE k \in 1..Len(lineArray) : lineArray[k] = l) - 1
        IN  [chars1    |-> [k \in 1..Len(lines1) |-> rune(lines1[k])],
             chars2    |-> [k \in 1..Len(lines2) |-> rune(lines2[k])],
             lineArray |-> lineArray]

\* DiffCharsToLines
DiffCharsToLines(diffs, lineArray) ==
    LET \* the lines of a run of runes, joined
        RECURSIVE CharsToText(_)
        CharsToText(chars) ==
            IF chars = <<>> THEN <<>>
            ELSE lineArray[Head(chars) + 1] \o CharsToText(Tail(chars))
    IN  [k \in 1..Len(diffs) |->
            Diff(diffs[k].Type, CharsToText(diffs[k].Text))]

\* "Get line-based diff": DiffLinesToChars, DiffMain, DiffCharsToLines
LineDiff(old, new) ==
    LET enc == DiffLinesToChars(old, new)
    IN  DiffCharsToLines(DiffMain(enc.chars1, enc.chars2), enc.lineArray)

\* the labels of the two commits, GetCommitShort
OldCommitShort == <<"o">>
NewCommitShort == <<"n">>

\* a conventional diff: unchanged lines are kept as context after " "
RECURSIVE UnifiedLinesWithContext(_, _)
UnifiedLinesWithContext(type, lines) ==
    IF lines = <<>> THEN <<>>
    ELSE (IF Head(lines) = <<>> THEN <<>>
          ELSE IF type = DiffDelete THEN <<"-">> \o Head(lines) \o <<"\n">>
          ELSE IF type = DiffInsert THEN <<"+">> \o Head(lines) \o <<"\n">>
          ELSE <<" ">> \o Head(lines) \o <<"\n">>)
         \o UnifiedLinesWithContext(type, Tail(lines))

\* the inner loop of generateUnifiedDiff: the non-empty lines of one diff,
\* deleted ones after "-", inserted ones after "+", equal ones left out
RECURSIVE UnifiedLines(_, _)
UnifiedLines(type, lines) ==
    IF lines = <<>> THEN <<>>
    ELSE (IF Head(lines) = <<>> \/ type = DiffEqual THEN <<>>
          ELSE IF type = DiffDelete THEN <<"-">> \o Head(lines) \o <<"\n">>
          ELSE <<"+">> \o Head(lines) \o <<"\n">>)
         \o UnifiedLines(type, Tail(lines))

generateUnifiedDiff(old, new, oldLabel, newLabel) ==
    LET \* the outer loop of generateUnifiedDiff
        RECURSIVE UnifiedBody(_)
        UnifiedBody(diffs) ==
            IF diffs = <<>> THEN <<>>
            ELSE UnifiedLines(Head(diffs).Type, Split(Head(diffs).Text))
                 \o UnifiedBody(Tail(diffs))
    IN  LET diffs == LineDiff(old, new)
        IN  <<"-", "-", "-", " ">> \o oldLabel \o <<"\n">>
            \o <<"+", "+", "+", " ">> \o newLabel \o <<"\n">>
            \o UnifiedBody(diffs)

\* extractSectionBlocks: title -> body
extractSectionBlocks(content) ==
    LET \* sections[title] = content
        Put(sections, title, body) ==
            [t \in DOMAIN sections \cup {title} |->
                IF t = title THEN body ELSE sections[t]]
        \* the loop of extractSectionBlocks from line k on, and "Save last section"
        RECURSIVE SectionBlocksFrom(_, _, _, _, _)
        SectionBlocksFrom(lines, k, sections, currentTitle, currentContent) ==
            LET saved == IF currentTitle # <<>>
                         THEN Put(sections, currentTitle, currentContent)
                         ELSE sections
            IN  IF k > Len(lines) THEN saved
                ELSE IF HasPrefix(lines[k], <<"#">>)
                THEN SectionBlocksFrom(lines, k + 1, saved,
                                       Drop(lines[k], LeadingRun(lines[k], {"#", " "})),
                                       <<>>)
                ELSE IF currentTitle # <<>>
                THEN SectionBlocksFrom(lines, k + 1, sections, currentTitle,
                                       currentContent \o lines[k] \o <<"\n">>)
                ELSE SectionBlocksFrom(lines, k + 1, sections, currentTitle,
                                       currentContent)
    IN  SectionBlocksFrom(Split(content), 1, <<>>, <<>>, <<>>)

countChangedLines(old, new) ==
    LET \* the lines one diff counts for: its line ends, and one more for a
        \* last line without a line end
        LineCount(text) ==
            CountNewlines(text)
            + (IF text # <<>> /\ text[Len(text)] # "\n" THEN 1 ELSE 0)
        \* the sum of LineCount over the diffs of one type
        RECURSIVE CountType(_, _)
        CountType(diffs, type) ==
            IF diffs = <<>> THEN 0
            ELSE (IF Head(diffs).Type = type THEN LineCount(Head(diffs).Text) ELSE 0)
                 + CountType(Tail(diffs), type)
        \* the loop of countChangedLines over the diffs
        ChangedLines(diffs) ==
            [added   |-> CountType(diffs, DiffInsert),
             removed |-> CountType(diffs, DiffDelete)]
    IN  ChangedLines(DiffMain(old, new))

SectionChange(title, type, added, removed) ==
    [SectionTitle |-> title, ChangeType |-> type,
     AddedLines |-> added, RemovedLines |-> removed]

\* the orders in which "range" may visit the keys of a map
Orders(keys) ==
    {o \in [1..Cardinality(keys) -> keys] :
        \A i, j \in 1..Cardinality(keys) : i # j => o[i] # o[j]}

\* the change appended for a modified section
Modified(title, n) == SectionChange(title, "modified", n.added, n.removed)

\* "Check for modified and removed sections", titles in the order visited
RECURSIVE ModifiedAndRemoved(_, _, _)
ModifiedAndRemoved(order, oldSections, newSections) ==
    IF order = <<>> THEN <<>>
    ELSE LET title == Head(order)
             rest  == ModifiedAndRemoved(Tail(order), oldSections, newSections)
         IN  IF title \in DOMAIN newSections
             THEN IF oldSections[title] # newSections[title]
                  THEN <<Modified(title, countChangedLines(oldSections[title],
                                                            newSections[title]))>>
                       \o rest
                  ELSE rest
             ELSE <<SectionChange(title, "removed", 0,
                                  CountNewlines(oldSections[title]) + 1)>>
                  \o rest

\* every section of the new rendering is reported as added
RECURSIVE AddedUnchecked(_, _, _)
AddedUnchecked(order, oldSections, newSections) ==
    IF order = <<>> THEN <<>>
    ELSE <<SectionChange(Head(order), "added",
                         CountNewlines(newSections[Head(order)]) + 1, 0)>>
         \o AddedUnchecked(Tail(order), oldSections, newSections)

\* "Check for added sections", titles in the order visited
RECURSIVE Added(_, _, _)
Added(order, oldSections, newSections) ==
    IF order = <<>> THEN <<>>
    ELSE LET title == Head(order)
             rest  == Added(Tail(order), oldSections, newSections)
         IN  IF title \notin DOMAIN oldSections
             THEN <<SectionChange(title, "added",
                                  CountNewlines(newSections[title]) + 1, 0)>>
                  \o rest
             ELSE rest

\* analyzeSectionChanges under the two orders of map iteration
analyzeSectionChanges(old, new, oldOrder, newOrder) ==
    LET oldSections == extractSectionBlocks(old)
        newSections == extractSectionBlocks(new)
    IN  ModifiedAndRemoved(oldOrder, oldSections, newSections)
        \o Added(newOrder, oldSections, newSections)

\* the path of the manifest in the worktree of the old commit
Worktree == AbsPathOf(2)

\* the lines asciidoctor and the Markdown converter put out
RenderLines ==
    {<<"#", " ", "A">>, <<"#", " ", "B">>, <<"a">>, <<"b", "a">>, <<>>}

\* compiler.Compile of the manifest at path: fs holds the rendering
Compile(path) == FileContent(fs[path])

\* the rendering of the manifest at path grows by a line
Render(path, line) ==
    /\ pc = "idle"
    /\ Len(fs[Root]) + Len(fs[Worktree]) < MaxRenderLines
    /\ fs' = [fs EXCEPT ![path] = Append(@, line)]
    /\ UNCHANGED <<readable, chmods, callVars>>

\* DiffCompiled from "Generate diff" on
DiffCompiledCall ==
    LET oldOutput     == Compile(Worktree)
        currentOutput == Compile(Root)
    IN  \E oldOrder \in Orders(DOMAIN extractSectionBlocks(oldOutput)),
           newOrder \in Orders(DOMAIN extractSectionBlocks(currentOutput)) :
            ScanCall("DiffCompiled",
                     [old |-> oldOutput,
                      new |-> currentOutput,
                      UnifiedDiff |->
                          generateUnifiedDiff(oldOutput, currentOutput,
                                              OldCommitShort, NewCommitShort),
                      HasChanges |-> oldOutput # currentOutput,
                      SectionChanges |->
                          analyzeSectionChanges(oldOutput, currentOutput,
                                                oldOrder, newOrder)])

\* the output gated by the first section change instead of by HasChanges
FormatDiffResultBySections(result) ==
    <<"C", "o", "m", "p", "a", "r", "i", "n", "g", ":", " ">> \o result.OldCommitShort \o <<" ", "-", ">", " ">>
    \o result.NewCommitShort \o <<"\n", "\n">>
    \o (IF result.SectionChanges = <<>>
        THEN <<"N", "o", " ", "c", "h", "a", "n", "g", "e", "s", " ", "i", "n", " ", "c", "o", "m", "p", "i", "l", "e", "d", " ", "o", "u", "t", "p", "u", "t", ".", "\n">>
        ELSE <<"D", "i", "f", "f", ":", "\n">> \o result.UnifiedDiff)

FormatDiffResult(result) ==
    LET \* fmt's %d of a natural number
        RECURSIVE Itoa(_)
        Itoa(n) ==
            LET digit == <<"0", "1", "2", "3", "4", "5", "6", "7", "8", "9">>
            IN  IF n < 10 THEN <<digit[n + 1]>>
                ELSE Itoa(n \div 10) \o <<digit[(n % 10) + 1]>>
        \* the loop over result.ChangedFiles
        RECURSIVE FileLines(_)
        FileLines(fl) ==
            IF fl = <<>> THEN <<>>
            ELSE <<" ", " ", "-", " ">> \o Head(fl) \o <<"\n">> \o FileLines(Tail(fl))
        \* the switch on sc.ChangeType
        ChangeLine(sc) ==
            IF sc.ChangeType = "added"
            THEN <<" ", " ", "+", " ">> \o sc.SectionTitle \o <<" ", "(", "+">> \o Itoa(sc.AddedLines)
                 \o <<" ", "l", "i", "n", "e", "s", ")", "\n">>
            ELSE IF sc.ChangeType = "removed"
            THEN <<" ", " ", "-", " ">> \o sc.SectionTitle \o <<" ", "(", "-">> \o Itoa(sc.RemovedLines)
                 \o <<" ", "l", "i", "n", "e", "s", ")", "\n">>
            ELSE IF sc.ChangeType = "modified"
            THEN <<" ", " ", "~", " ">> \o sc.SectionTitle \o <<" ", "(", "+">> \o Itoa(sc.AddedLines)
                 \o <<"/", "-">> \o Itoa(sc.RemovedLines) \o <<" ", "l", "i", "n", "e", "s", ")", "\n">>
            ELSE <<>>
        \* the loop over result.SectionChanges
        RECURSIVE ChangeLines(_)
        ChangeLines(scs) ==
            IF scs = <<>> THEN <<>>
            ELSE ChangeLine(Head(scs)) \o ChangeLines(Tail(scs))
    IN  <<"C", "o", "m", "p", "a", "r", "i", "n", "g", ":", " ">> \o result.OldCommitShort \o <<" ", "-", ">", " ">>
        \o result.NewCommitShort \o <<"\n", "\n">>
        \o (IF ~result.HasChanges
            THEN <<"N", "o", " ", "c", "h", "a", "n", "g", "e", "s", " ", "i", "n", " ", "c", "o", "m", "p", "i", "l", "e", "d", " ", "o", "u", "t", "p", "u", "t", ".", "\n">>
            ELSE (IF Len(result.ChangedFiles) > 0
                  THEN <<"C", "h", "a", "n", "g", "e", "d", " ", "s", "o", "u", "r", "c", "e", " ", "f", "i", "l", "e", "s", ":", "\n">>
                       \o FileLines(result.ChangedFiles) \o <<"\n">>
                  ELSE <<>>)
                 \o (IF Len(result.SectionChanges) > 0
                     THEN <<"S", "e", "c", "t", "i", "o", "n", " ", "c", "h", "a", "n", "g", "e", "s", ":", "\n">>
                          \o ChangeLines(result.SectionChanges) \o <<"\n">>
                     ELSE <<>>)
                 \o <<"D", "i", "f", "f", ":", "\n">> \o result.UnifiedDiff)

\* the diff command: FormatDiffResult of what DiffCompiled returned, whose
\* ChangedFiles are the changed source files filterAdocFiles leaves
FormatDiffResultCall ==
    /\ pc = "done"
    /\ op = "DiffCompiled"
    /\ \E changedFiles \in {<<>>, <<<<"m", ".", "a", "d", "o", "c">>>>} :
        LET result == [OldCommitShort |-> OldCommitShort,
                       NewCommitShort |-> NewCommitShort,
                       ChangedFiles   |-> changedFiles,
                       UnifiedDiff    |-> ret.UnifiedDiff,
                       SectionChanges |-> ret.SectionChanges,
                       HasChanges     |-> ret.HasChanges]
        IN  ret' = [result |-> result, out |-> FormatDiffResult(result)]
    /\ op' = "FormatDiffResult"
    /\ UNCHANGED <<fs, readable, chmods, pc, err, visited, files, stack, failed,
                   structure, idx>>

NextDiff ==
    \/ \E line \in RenderLines : Render(Root, line)
    \/ \E line \in RenderLines : Render(Worktree, line)
    \/ DiffCompiledCall
    \/ FormatDiffResultCall

SpecDiff == Init /\ [][NextDiff]_vars

\* ----------------------------------------------------------- FindSpecInDir
\* A path is the sequence of its elements, "/" first when it is absolute;
\* the file system of this part maps the absolute paths of the files that
\* exist to their data.
WorkDir == <<"/", "w">>

\* the conventions with the sub-directory looked up first
ConventionsSpecFirst ==
    <<<<"spec", "MANIFEST.adoc">>, <<"MANIFEST.adoc">>, <<"plan", "MANIFEST.adoc">>>>

Conventions ==
    <<<<"MANIFEST.adoc">>, <<"spec", "MANIFEST.adoc">>, <<"plan", "MANIFEST.adoc">>>>

\* FindSpecInDir(dir) in the file system disk; the result is Nil with the
\* error set
FindSpecInDir(dir, disk) ==
    LET \* filepath.Clean: "." and empty elements go, ".." takes the element
        \* before it along (and nothing at the root); no element gives "."
        RECURSIVE Resolve(_, _)
        Resolve(done, rest) ==
            IF rest = <<>> THEN done
            ELSE IF Head(rest) \in {".", ""} THEN Resolve(done, Tail(rest))
            ELSE IF Head(rest) = ".."
            THEN IF done # <<>> /\ done[Len(done)] \notin {"/", ".."}
                 THEN Resolve(SubSeq(done, 1, Len(done) - 1), Tail(rest))
                 ELSE IF done # <<>> /\ done[Len(done)] = "/"
                 THEN Resolve(done, Tail(rest))
                 ELSE Resolve(Append(done, ".."), Tail(rest))
            ELSE Resolve(Append(done, Head(rest)), Tail(rest))
        Clean(p) ==
            LET c == IF p # <<>> /\ p[1] = "/"
                     THEN Resolve(<<"/">>, Tail(p)) ELSE Resolve(<<>>, p)
            IN  IF c = <<>> THEN <<".">> ELSE c
        \* filepath.Join: the non-empty arguments joined and cleaned
        JoinPath(a, b) == Clean(a \o b)
        \* filepath.Abs: a relative path is joined to the current directory
        Abs(p) == IF IsAbs(p) THEN Clean(p) ELSE JoinPath(WorkDir, p)
        \* os.Stat succeeds for a file and for a directory on the way to one
        Stat(p) ==
            \/ Abs(p) = WorkDir
            \/ \E f \in DOMAIN disk :
                   Len(f) >= Len(Abs(p)) /\ SubSeq(f, 1, Len(Abs(p))) = Abs(p)
        configPath == Abs(JoinPath(dir, <<".spec.yaml">>))
        \* "2. Check conventions" from the i-th name on
        RECURSIVE Convention(_)
        Convention(i) ==
            IF i > Len(Conventions) THEN [path |-> Nil, err |-> TRUE]
            ELSE IF Stat(JoinPath(dir, Conventions[i]))
            THEN [path |-> Abs(JoinPath(dir, Conventions[i])), err |-> FALSE]
            ELSE Convention(i + 1)
        \* "1. Check for .spec.yaml config" for the parsed config
        Configured(config) ==
            LET path == IF IsAbs(config.spec) THEN config.spec
                        ELSE JoinPath(dir, config.spec)
            IN  IF Stat(path) THEN [path |-> Abs(path), err |-> FALSE]
                ELSE [path |-> Nil, err |-> TRUE]
    IN  IF configPath \in DOMAIN disk /\ "spec" \in DOMAIN disk[configPath]
        THEN Configured(disk[configPath])
        ELSE Convention(1)

\* the state before any file exists in the current directory
InitConfig ==
    /\ fs = <<>>
    /\ readable = {}
    /\ chmods = 0
    /\ InitCall

\* os.WriteFile of data to a new file at path
WriteFile(path, data) ==
    /\ pc = "idle"
    /\ path \notin DOMAIN fs
    /\ fs' = [p \in DOMAIN fs \cup {path} |-> IF p = path THEN data ELSE fs[p]]
    /\ UNCHANGED <<readable, chmods, callVars>>

FindSpecInDirCall(dir) ==
    /\ pc = "idle"
    /\ op' = "FindSpecInDir"
    /\ ret' = [dir |-> dir, path |-> FindSpecInDir(dir, fs).path]
    /\ err' = FindSpecInDir(dir, fs).err
    /\ pc' = "done"
    /\ UNCHANGED <<fs, readable, chmods, visited, files, stack, failed,
                   structure, idx>>

\* an editor creates the convention files and custom.adoc, and a .spec.yaml:
\* data yaml.Unmarshal rejects, or a mapping with the spec key as
\* "./custom.adoc", as a path that does not exist, as an absolute path, as a
\* path through a directory, or without the key; FindSpecInDir is called with the current directory as FindSpec passes it,
\* and with its absolute path
NextConfig ==
    \/ \E name \in {<<"MANIFEST.adoc">>, <<"spec", "MANIFEST.adoc">>,
                     <<"plan", "MANIFEST.adoc">>, <<"custom.adoc">>} :
            WriteFile(WorkDir \o name, <<>>)
    \/ \E data \in {[invalid |-> TRUE]}
                    \cup {[spec |-> s] :
                             s \in {<<".", "custom.adoc">>, <<"nonexistent.adoc">>,
                                    WorkDir \o <<"custom.adoc">>,
                                    <<"spec", "..", "custom.adoc">>, <<>>}} :
            WriteFile(WorkDir \o <<".spec.yaml">>, data)
    \/ \E dir \in {<<".">>, WorkDir} : FindSpecInDirCall(dir)

SpecConfig == InitConfig /\ [][NextConfig]_vars

\* ----------------------------------------------------------------- version
\* the release versions that are compared, and a build without a version
Versions == {<<"1", ".", "9", ".", "0">>, <<"1", ".", "9", ".", "1">>, <<"1", ".", "1", "0", ".", "0">>, <<"2", ".", "0", ".", "0">>}

isNewer(latest, current) ==
    LET \* strings.TrimPrefix(s, "v")
        TrimV(s) == IF HasPrefix(s, <<"v">>) THEN Tail(s) ELSE s
        \* strings.Split(s, ".")
        RECURSIVE Parts(_)
        Parts(s) ==
            LET dots == {i \in 1..Len(s) : s[i] = "."}
            IN  IF dots = {} THEN <<s>>
                ELSE <<SubSeq(s, 1, Min(dots) - 1)>>
                     \o Parts(SubSeq(s, Min(dots) + 1, Len(s)))
        \* the byte of a character of a version
        byte(c) == CHOOSE b \in 46..118 :
                       \/ b = 46 /\ c = "."
                       \/ b = 118 /\ c = "v"
                       \/ b \in 48..57
                          /\ <<"0", "1", "2", "3", "4", "5", "6", "7", "8", "9">>[b - 47] = c
        \* a < b on strings: byte-wise, a proper prefix is less
        RECURSIVE Less(_, _)
        Less(a, b) ==
            IF b = <<>> THEN FALSE
            ELSE IF a = <<>> THEN TRUE
            ELSE IF Head(a) # Head(b) THEN byte(Head(a)) < byte(Head(b))
            ELSE Less(Tail(a), Tail(b))
        \* the loop over the parts both versions have
        RECURSIVE Compare(_, _)
        Compare(l, c) ==
            IF l = <<>> \/ c = <<>> THEN Len(l) > Len(c)
            ELSE IF Less(Head(c), Head(l)) THEN TRUE
            ELSE IF Less(Head(l), Head(c)) THEN FALSE
            ELSE Compare(Tail(l), Tail(c))
    IN  Compare(Parts(TrimV(latest)), Parts(TrimV(current)))

\* CheckForUpdate(currentVersion): the cache entry is fresh or older than
\* cacheTTL, and fetched is what fetchLatestVersion returns ("" on failure)
CheckForUpdateCall(currentVersion, fresh, fetched) ==
    LET cachePath == <<"/", "home", ".cca-version-check">>
        return(out) ==
            ret' = [currentVersion |-> currentVersion, fresh |-> fresh,
                    fetched |-> fetched, out |-> out]
    IN  /\ pc = "idle"
        /\ op' = "CheckForUpdate"
        /\ pc' = "done"
        /\ err' = FALSE
        /\ IF currentVersion = <<"d", "e", "v">>
           THEN return(<<>>) /\ fs' = fs
           ELSE IF cachePath \in DOMAIN fs /\ fresh
           THEN /\ return(IF isNewer(fs[cachePath], currentVersion)
                          THEN fs[cachePath] ELSE <<>>)
                /\ fs' = fs
           ELSE IF fetched = <<>>
           THEN return(<<>>) /\ fs' = fs
           ELSE /\ fs' = [p \in DOMAIN fs \cup {cachePath} |->
                             IF p = cachePath THEN fetched ELSE fs[p]]
                /\ return(IF isNewer(fetched, currentVersion)
                          THEN fetched ELSE <<>>)
        /\ UNCHANGED <<readable, chmods, visited, files, stack, failed,
                       structure, idx>>

\* an earlier run left a cache entry; CheckForUpdate runs
NextVersion ==
    \/ \E v \in Versions : WriteFile(<<"/", "home", ".cca-version-check">>, v)
    \/ \E currentVersion \in Versions \cup {<<"d", "e", "v">>},
          fresh \in BOOLEAN, fetched \in Versions \cup {<<>>} :
            CheckForUpdateCall(currentVersion, fresh, fetched)

SpecVersion == InitConfig /\ [][NextVersion]_vars

\* ------------------------------------------- DiffCompiled and its worktree
\* In this part fs maps the temporary directories that exist to what they
\* hold ("dir" or "worktree"), idx counts the names os.MkdirTemp has given
\* out, visited holds the directories made during the call, files the
\* removals made during the call, stack the deferred calls, and ret the
\* arguments and the step that failed.
\* DiffCompiled up to "Compile current version": the git check, the commit
\* resolution, the changed-file listing or the compilation may fail
DiffCompiledStart(targetCommit, failing) ==
    /\ pc = "idle"
    /\ idx < MaxTempDirs
    /\ op' = "DiffCompiled"
    /\ visited' = {}
    /\ files' = <<>>
    /\ stack' = <<>>
    /\ ret' = [targetCommit |-> targetCommit, failing |-> failing]
    /\ err' = (failing # "none")
    /\ pc' = IF failing # "none" THEN "done" ELSE "MkdirTemp"
    /\ UNCHANGED <<fs, readable, chmods, failed, structure, idx>>

\* CreateWorktree, "Create temp directory"
MkdirTemp(ok) ==
    /\ pc = "MkdirTemp"
    /\ IF ok
       THEN /\ idx' = idx + 1
            /\ fs' = [p \in DOMAIN fs \cup {<<"/", "tmp", idx + 1>>} |->
                         IF p = <<"/", "tmp", idx + 1>> THEN "dir" ELSE fs[p]]
            /\ visited' = {<<"/", "tmp", idx + 1>>}
            /\ pc' = "worktree add"
            /\ UNCHANGED <<ret, err>>
       ELSE /\ ret' = [ret EXCEPT !.failing = "MkdirTemp"]
            /\ err' = TRUE
            /\ pc' = "done"
            /\ UNCHANGED <<fs, idx, visited>>
    /\ UNCHANGED <<readable, chmods, op, files, stack, failed, structure>>

\* CreateWorktree, "Create worktree", and in DiffCompiled the defer of
\* RemoveWorktree after a worktree was made
WorktreeAdd(ok) ==
    /\ pc = "worktree add"
    /\ \E tempDir \in visited :
        IF ok
        THEN /\ fs' = [fs EXCEPT ![tempDir] = "worktree"]
             /\ stack' = <<[defer |-> "RemoveWorktree", path |-> tempDir]>>
             /\ pc' = "Compile"
             /\ UNCHANGED <<files, ret, err>>
        ELSE /\ fs' = [p \in DOMAIN fs \ {tempDir} |-> fs[p]]
             /\ files' = Append(files, [by |-> "CreateWorktree", path |-> tempDir])
             /\ ret' = [ret EXCEPT !.failing = "worktree add"]
             /\ err' = TRUE
             /\ pc' = "done"
             /\ UNCHANGED stack
    /\ UNCHANGED <<readable, chmods, op, visited, failed, structure, idx>>

\* RemoveWorktree is not deferred: a failed compilation returns at once
CompileOldNoDefer(ok) ==
    /\ pc = "Compile"
    /\ ret' = [ret EXCEPT !.failing = IF ok THEN "none" ELSE "Compile"]
    /\ err' = ~ok
    /\ pc' = IF ok THEN "return" ELSE "done"
    /\ UNCHANGED <<fs, readable, chmods, op, visited, files, stack, failed,
                   structure, idx>>

\* compiler.Compile of the old manifest, and on success the diff: both
\* paths return
CompileOld(ok) ==
    /\ pc = "Compile"
    /\ ret' = [ret EXCEPT !.failing = IF ok THEN "none" ELSE "Compile"]
    /\ err' = ~ok
    /\ pc' = "return"
    /\ UNCHANGED <<fs, readable, chmods, op, visited, files, stack, failed,
                   structure, idx>>

\* the deferred RemoveWorktree: git worktree remove --force, whose error is
\* ignored, and os.RemoveAll
RemoveWorktree ==
    /\ pc = "return"
    /\ stack # <<>>
    /\ fs' = [p \in DOMAIN fs \ {Top.path} |-> fs[p]]
    /\ files' = Append(files, [by |-> "RemoveWorktree", path |-> Top.path])
    /\ stack' = SubSeq(stack, 1, Len(stack) - 1)
    /\ pc' = "done"
    /\ UNCHANGED <<readable, chmods, op, visited, failed, structure, idx, ret, err>>

\* the command ends; it may be run again
Exit ==
    /\ pc = "done"
    /\ op = "DiffCompiled"
    /\ pc' = "idle"
    /\ op' = "none"
    /\ ret' = Nil
    /\ err' = FALSE
    /\ visited' = {}
    /\ files' = <<>>
    /\ UNCHANGED <<fs, readable, chmods, stack, failed, structure, idx>>

NextWorktree ==
    \/ \E targetCommit \in {<<"HEAD~1">>, <<"main">>},
          failing \in {"none", "IsGitRepository", "GetCurrentCommit",
                       "ResolveCommit", "GetChangedFiles", "Compile current"} :
            DiffCompiledStart(targetCommit, failing)
    \/ \E ok \in BOOLEAN : MkdirTemp(ok)
    \/ \E ok \in BOOLEAN : WorktreeAdd(ok)
    \/ \E ok \in BOOLEAN : CompileOld(ok)
    \/ RemoveWorktree
    \/ Exit

SpecWorktree == InitConfig /\ [][NextWorktree]_vars

\* ================================================================ claims
Count(x, s) == Cardinality({k \in 1..Len(s) : s[k] = x})
NoDup(s) == \A i, j \in 1..Len(s) : i # j => s[i] # s[j]
Elems(s) == {s[k] : k \in 1..Len(s)}

\* the include graph written in the file system
Targets(f) == LET incs == ExtractIncludesFromFile(f, fs[f])
              IN  {incs[k].AbsPath : k \in 1..Len(incs)} \cap AbsPaths

RECURSIVE Closure(_)
Closure(S) == LET T == S \cup UNION {Targets(f) : f \in S}
              IN  IF T = S THEN S ELSE Closure(T)

ReachPlus(f) == Closure(Targets(f))
OnCycle(f) == f \in ReachPlus(f)
Acyclic == \A f \in AbsPaths : ~OnCycle(f)

FilesDone == pc = "done" /\ op = "GetIncludedFiles"
TreeDone == pc = "done" /\ op = "BuildIncludeTree"
StructureDone == pc = "done" /\ op = "BuildStructure"
SectionsDone == pc = "done" /\ op = "ExtractSectionsFromFile"

\* C1: when GetIncludedFiles returns for a manifest whose include graph has
\* a cycle, every file on a cycle reachable from the manifest occurs exactly
\* once in the returned list.
C1_CycleFilesOnce ==
    (FilesDone /\ failed = {}) =>
        \A g \in AbsPaths :
            (g \in Closure({Root}) /\ OnCycle(g)) => Count(g, ret.files) = 1

\* work left for the recursion: unread directives of the open frames, the
\* frames themselves, and everything in files not visited yet
RECURSIVE OpenWork(_, _)
OpenWork(st, k) ==
    IF k = 0 THEN 0 ELSE Len(st[k].incs) - st[k].i + 2 + OpenWork(st, k - 1)

RECURSIVE UnseenWork(_)
UnseenWork(S) ==
    IF S = {} THEN 0
    ELSE LET f == CHOOSE f \in S : TRUE
         IN  Len(ExtractIncludes(fs[f])) + 2 + UnseenWork(S \ {f})

Rank(st, seen) == OpenWork(st, Len(st)) + UnseenWork(AbsPaths \ seen)

\* GetIncludedFiles terminates: every step of the recursion is enabled until
\* it returns and strictly decreases the work left
CollectTerminates ==
    [][pc = "collect" /\ callVars' # callVars =>
          /\ stack # <<>>
          /\ Rank(stack', visited') >= 0
          /\ Rank(stack', visited') < Rank(stack, visited)]_vars

\* C2: the list returned by GetIncludedFiles holds no absolute path twice.
C2_FilesDeduplicated ==
    (FilesDone /\ ~err) => NoDup(ret.files)

\* files reachable from S without passing through a file of bad
RECURSIVE ClosureAvoiding(_, _)
ClosureAvoiding(S, bad) ==
    LET T == S \cup (UNION {Targets(f) : f \in S} \ bad)
    IN  IF T = S THEN S ELSE ClosureAvoiding(T, bad)

FailedFiles == {r.file : r \in failed}

RECURSIVE SectionsOfFiles(_, _)
SectionsOfFiles(list, k) ==
    IF k > Len(list) THEN <<>>
    ELSE (IF [file |-> list[k], at |-> "sections", idx |-> k] \in failed
          THEN <<>> ELSE ExtractSectionsFromFile(list[k], fs[list[k]]))
         \o SectionsOfFiles(list, k + 1)

RootReadFailed ==
    \E r \in failed :
        r.file = Root /\ r.at \in {"attributes", "includes", "collect", "rootsections"}

\* C4: BuildStructure returns (nil, error) exactly when a read of the
\* manifest failed in the attribute scan, the include scan, the recursive
\* resolution or the manifest's section scan; otherwise it returns a
\* structure whose sections are those of the manifest followed by those of
\* each listed file that could be read in the section loop.
C4_RootAllOrNothing ==
    StructureDone =>
        IF RootReadFailed
        THEN err /\ ret = Nil
        ELSE /\ ~err
             /\ ret # Nil
             /\ ret.ManifestPath = Root
             /\ ret.Files = files
             /\ ret.Sections = ExtractSectionsFromFile(Root, fs[Root])
                                  \o SectionsOfFiles(ret.Files, 1)

C4_Witness ==
    /\ StructureDone
    /\ [file |-> Root, at |-> "rootsections", idx |-> 0] \in failed
    /\ structure # Nil
    /\ structure.Files # <<>>
    /\ ret = Nil

\* depth-first pre-order of the include graph, each file once
RECURSIVE PreOrder(_, _)
PreOrder(todo, seen) ==
    IF todo = <<>> THEN <<>>
    ELSE LET f == Head(todo)
         IN  IF f \in seen THEN PreOrder(Tail(todo), seen)
             ELSE LET incs == ExtractIncludesFromFile(f, fs[f])
                  IN  <<f>> \o PreOrder([k \in 1..Len(incs) |-> incs[k].AbsPath]
                                         \o Tail(todo), seen \cup {f})

\* C5: for an acyclic include graph with every file readable the returned
\* list is the depth-first pre-order of the graph, directives followed in
\* their order of appearance.
C5_DepthFirstPreOrder ==
    (FilesDone /\ failed = {} /\ Acyclic) =>
        ret.files = Tail(PreOrder(<<Root>>, {}))

\* the nodes of an include tree, nil entries skipped
RECURSIVE TreeNodes(_), ForestNodes(_, _)
TreeNodes(n) ==
    IF n = Nil THEN <<>> ELSE <<n>> \o ForestNodes(n.Includes, 1)
ForestNodes(list, k) ==
    IF k > Len(list) THEN <<>>
    ELSE TreeNodes(list[k]) \o ForestNodes(list, k + 1)

TreePaths(n) == LET ns == TreeNodes(n) IN [k \in 1..Len(ns) |-> ns[k].AbsPath]

HasNilEntry(n) ==
    \E m \in Elems(TreeNodes(n)) : \E k \in 1..Len(m.Includes) : m.Includes[k] = Nil

\* C6: BuildIncludeTree terminates without error for every include graph;
\* the returned tree has exactly one node per visited file, so no absolute
\* path labels two nodes, an already visited target adds no child, and no
\* nil entry is stored in any Includes list.
C6_TreeOneNodePerFile ==
    /\ [](TreeDone =>
            /\ ~err
            /\ ret # Nil
            /\ ~HasNilEntry(ret)
            /\ NoDup(TreePaths(ret))
            /\ Elems(TreePaths(ret)) = visited
            /\ \A m \in Elems(TreeNodes(ret)) :
                  /\ Len(m.Includes) <= Len(ExtractIncludes(fs[m.AbsPath]))
                  /\ \A k \in 1..Len(m.Includes) :
                        m.Includes[k] # Nil =>
                            m.Includes[k].AbsPath \in Targets(m.AbsPath))
    /\ [][pc = "build" /\ callVars' # callVars =>
              /\ stack # <<>>
              /\ Rank(stack', visited') >= 0
              /\ Rank(stack', visited') < Rank(stack, visited)]_vars

\* a finished tree of at least two nodes in which a child's file includes
\* the manifest again
C6_Witness ==
    /\ TreeDone
    /\ failed = {}
    /\ Len(ret.Includes) >= 1
    /\ \E k \in 1..Len(ret.Includes) :
          /\ ret.Includes[k].AbsPath # Root
          /\ Root \in Targets(ret.Includes[k].AbsPath)

\* C7: in BuildIncludeTree a file that cannot be opened still gets a node
\* with no children, attached to the node of the file that includes it, and
\* no error is returned; an unreadable manifest gives a childless root node.
C7_UnreadableNodeKept ==
    TreeDone =>
        /\ ~err
        /\ \A r \in failed :
              IF r.file = Root
              THEN ret = [Path |-> <<Names[1]>>, AbsPath |-> Root,
                          Tags |-> <<>>, Includes |-> <<>>]
              ELSE \E p \in Elems(TreeNodes(ret)) :
                      \E k \in 1..Len(p.Includes) :
                          /\ p.Includes[k] # Nil
                          /\ p.Includes[k].AbsPath = r.file
                          /\ p.Includes[k].Includes = <<>>
                          /\ r.file \in Targets(p.AbsPath)

C7_Witness ==
    /\ TreeDone
    /\ \E r \in failed : r.file # Root /\ Targets(r.file) # {}

\* ---- headings, stated without the scanner
\* one or more '=' at column 1, then at least one whitespace character,
\* then at least one more character
HeadingShape(line) ==
    \E i, j \in 1..Len(line) :
        /\ i < j
        /\ j < Len(line)
        /\ \A k \in 1..i : line[k] = "="
        /\ \A k \in (i + 1)..j : line[k] \in RegexSpace

MarkerCount(line) ==
    Cardinality({i \in 1..Len(line) : \A k \in 1..i : line[k] = "="})

HeadingLines == {k \in 1..Len(fs[Root]) : HeadingShape(fs[Root][k])}

C9_HeadingIffShape ==
    SectionsDone =>
        LET secs == ret.sections
        IN  /\ \A k \in 1..Len(fs[Root]) :
                  (\E j \in 1..Len(secs) : secs[j].StartLine = k)
                      <=> HeadingShape(fs[Root][k])
            /\ \A j \in 1..Len(secs) :
                  LET line == fs[Root][secs[j].StartLine]
                  IN  secs[j].Title =
                         TrimSpace(SubSeq(line, MarkerCount(line) + 1, Len(line)))

C9_Witness ==
    /\ SectionsDone
    /\ \E k \in 1..Len(fs[Root]) :
          /\ Len(fs[Root][k]) >= 2
          /\ fs[Root][k][1] = "="
          /\ fs[Root][k][2] = "a"
          /\ \A j \in 1..Len(ret.sections) : ret.sections[j].StartLine # k
    /\ \E j \in 1..Len(ret.sections) : "=" \in Elems(ret.sections[j].Title)

ContentDone == pc = "done" /\ op = "GetSectionContent"

\* the lines of the manifest numbered from..to, joined by "\n", computed
\* position by position
SpanText(from, to) ==
    LET ls   == fs[Root]
        \* start offset of line n inside the joined text
        off  == [n \in from..to |->
                    LET RECURSIVE Sum(_)
                        Sum(m) == IF m < from THEN 0
                                  ELSE Len(ls[m]) + 1 + Sum(m - 1)
                    IN  Sum(n - 1)]
        len  == IF to < from THEN 0 ELSE off[to] + Len(ls[to])
    IN  [p \in 1..len |->
            LET n == CHOOSE n \in from..to : off[n] < p /\ p <= off[n] + Len(ls[n]) + 1
            IN  IF p = off[n] + Len(ls[n]) + 1 THEN "\n" ELSE ls[n][p - off[n]]]

\* C11: GetSectionContent returns the lines numbered StartLine..EndLine of
\* the section's file joined by newlines, and StartLine..end of file when
\* the section is open (EndLine = -1); the first returned line is the
\* heading line and no other returned line is a heading.
C11_SectionContentRange ==
    (ContentDone /\ ~err) =>
        LET s    == ret.section
            last == IF s.EndLine = -1 THEN Len(fs[Root]) ELSE s.EndLine
        IN  /\ s.StartLine <= last
            /\ last <= Len(fs[Root])
            /\ ret.content = SpanText(s.StartLine, last)
            /\ HeadingShape(fs[Root][s.StartLine])
            /\ \A n \in (s.StartLine + 1)..last : ~HeadingShape(fs[Root][n])

\* the content of a closed two-line section, followed by another section,
\* was read
C11_Witness ==
    /\ ContentDone
    /\ ~err
    /\ ret.section.EndLine = ret.section.StartLine + 1
    /\ "\n" \in Elems(ret.content)
    /\ Len(fs[Root]) > ret.section.EndLine

\* the heading lines of file f as (file, line) pairs in ascending line order
HeadingLinesOf(f) == {k \in 1..Len(fs[f]) : HeadingShape(fs[f][k])}

ExpectedHeadings(f) ==
    LET S == HeadingLinesOf(f)
    IN  [j \in 1..Cardinality(S) |->
            [FilePath  |-> f,
             StartLine |-> CHOOSE n \in S : Cardinality({m \in S : m < n}) = j - 1]]

\* the same for the entries k.. of a file list, entries whose read failed
\* in the section loop contributing nothing
RECURSIVE ExpectedIn(_, _)
ExpectedIn(list, k) ==
    IF k > Len(list) THEN <<>>
    ELSE (IF [file |-> list[k], at |-> "sections", idx |-> k] \in failed
          THEN <<>> ELSE ExpectedHeadings(list[k]))
         \o ExpectedIn(list, k + 1)

\* C12: the section list of a built structure holds the manifest's sections
\* first, then the sections of each entry of SpecStructure.Files in the
\* order of that list, each file's sections by ascending line; an entry
\* that could not be read contributes no section.
C12_SectionOrder ==
    (StructureDone /\ ~err) =>
        [p \in 1..Len(ret.Sections) |->
            [FilePath  |-> ret.Sections[p].FilePath,
             StartLine |-> ret.Sections[p].StartLine]]
        = ExpectedHeadings(Root) \o ExpectedIn(ret.Files, 1)

\* a structure with a section of the manifest followed by a section of an
\* included file
C12_Witness ==
    /\ StructureDone
    /\ ~err
    /\ Len(ret.Sections) = 2
    /\ ret.Sections[1].FilePath = Root
    /\ ret.Sections[2].FilePath # Root
    /\ ret.Sections[2].FilePath \in Elems(ret.Files)

\* ---- attribute declarations, stated without the pattern matcher
\* the position of the colon closing the name of a well-formed
\* ":name: value" line, 0 when the line is not one
NameEnd(line) ==
    LET cs == {c \in 3..Len(line) :
                 /\ line[1] = ":"
                 /\ line[c] = ":"
                 /\ \A j \in 2..(c - 1) : line[j] \in NameChars}
    IN  IF cs = {} THEN 0 ELSE Min(cs)

DeclName(line) == SubSeq(line, 2, NameEnd(line) - 1)
DeclValue(line) == TrimSpace(SubSeq(line, NameEnd(line) + 1, Len(line)))
DeclLines == {k \in 1..Len(fs[Root]) : NameEnd(fs[Root][k]) > 0}

OccurrencesOf(line, name) ==
    {i \in 1..Len(line) :
        /\ i + Len(name) + 1 <= Len(line)
        /\ SubSeq(line, i, i + Len(name) + 1) = <<"{">> \o name \o <<"}">>}

\* positions of line where a reference "{identifier}" starts
ReferencesIn(line) ==
    {i \in 1..Len(line) :
        /\ line[i] = "{"
        /\ \E j \in (i + 2)..Len(line) :
              /\ line[j] = "}"
              /\ \A m \in (i + 1)..(j - 1) : line[m] \in NameChars}

\* the text of the nearest line at or before line n that begins with "=",
\* empty when there is none
TitleAt(n) ==
    LET hs == {m \in 1..n : fs[Root][m] # <<>> /\ fs[Root][m][1] = "="}
    IN  IF hs = {} THEN <<>>
        ELSE LET h    == fs[Root][Max(hs)]
                 text == {i \in 1..Len(h) : h[i] \notin {"=", " "}}
             IN  IF text = {} THEN <<>>
                 ELSE TrimSpace(SubSeq(h, Min(text), Len(h)))

UsagesAt(usages, n) == {j \in 1..Len(usages) : usages[j].Line = n}

UsageFields(usages) ==
    /\ \A j \in 1..Len(usages) :
          /\ usages[j].Line \in 1..Len(fs[Root])
          /\ usages[j].FilePath = Root
          /\ usages[j].Context = TrimSpace(fs[Root][usages[j].Line])
          /\ usages[j].SectionTitle = TitleAt(usages[j].Line)
    /\ \A j \in 1..(Len(usages) - 1) : usages[j].Line <= usages[j + 1].Line

\* C15: both reference scans return one usage per occurrence: a line that
\* holds the reference k times yields k usages, each with the 1-based line
\* number, the trimmed line as context and the text of the nearest heading
\* line (a line beginning with "=") as section title, empty when there is
\* none.
C15_UsagePerOccurrence ==
    /\ (pc = "done" /\ op = "FindAllAttributeUsages") =>
          /\ UsageFields(ret.usages)
          /\ \A n \in 1..Len(fs[Root]) :
                Cardinality(UsagesAt(ret.usages, n))
                    = Cardinality(ReferencesIn(fs[Root][n]))
    /\ (pc = "done" /\ op = "FindAttributeUsages") =>
          /\ UsageFields(ret.usages)
          /\ \A j \in 1..Len(ret.usages) : ret.usages[j].Name = ret.name
          /\ \A n \in 1..Len(fs[Root]) :
                Cardinality(UsagesAt(ret.usages, n))
                    = Cardinality(OccurrencesOf(fs[Root][n], ret.name))

\* the files of the document tree in discovery order, manifest first
DiscoveryOrder(s) == <<s.ManifestPath>> \o s.Files

\* C13: when several files of the document tree declare the same attribute,
\* the attribute map of the built structure holds the declaration of the
\* file visited last in discovery order (its last declaration of the name),
\* with that file's path and the line of the declaration.
C13_LastVisitedFileWins ==
    (StructureDone /\ ~err) =>
        LET order == DiscoveryOrder(ret)
            defs  == [k \in 1..Len(order) |->
                         ExtractAttributesFromFile(order[k], fs[order[k]])]
        IN  \A k \in 1..Len(order) : \A j \in 1..Len(defs[k]) :
                LET d == defs[k][j]
                IN  (/\ \A i \in (j + 1)..Len(defs[k]) : defs[k][i].Name # d.Name
                     /\ \A m \in (k + 1)..Len(order) :
                           \A i \in 1..Len(defs[m]) : defs[m][i].Name # d.Name)
                    => /\ d.Name \in DOMAIN ret.Attributes
                       /\ ret.Attributes[d.Name] = d

ImpactDone == pc = "done" /\ op = "AnalyzeAttribute"

\* the first position of file f in a file list
FirstIndex(list, f) == Min({k \in 1..Len(list) : list[k] = f})

\* the lines of file f that refer to name
ReferringLines(f, name) ==
    {n \in 1..Len(fs[f]) : OccurrencesOf(fs[f][n], name) # {}}

\* C18: the impact lookup scans the manifest and every included file and
\* returns the usages in one bucket per file that refers to the name, the
\* buckets in the order of the structure's file list and the usages of a
\* bucket by ascending line; a name without definition still gets its
\* usages, with no definition and no error.
C18_ImpactBuckets ==
    ImpactDone =>
        LET order   == DiscoveryOrder(structure)
            buckets == ret.ByFile
        IN  /\ ~err
            /\ ret.Definition = Nil <=> ret.Name \notin DOMAIN structure.Attributes
            /\ {buckets[b].FilePath : b \in 1..Len(buckets)}
                  = {f \in Elems(order) : ReferringLines(f, ret.Name) # {}}
            /\ \A b, c \in 1..Len(buckets) :
                  b < c => FirstIndex(order, buckets[b].FilePath)
                              < FirstIndex(order, buckets[c].FilePath)
            /\ \A b \in 1..Len(buckets) :
                  LET us == buckets[b].Usages
                  IN  /\ \A j \in 1..Len(us) :
                            /\ us[j].FilePath = buckets[b].FilePath
                            /\ us[j].Line \in ReferringLines(us[j].FilePath, ret.Name)
                      /\ \A j \in 1..(Len(us) - 1) : us[j].Line < us[j + 1].Line

FindDone == pc = "done" /\ op = "FindSection"

\* the query as compared: trimmed, letters folded to lower case
Folded(s) ==
    LET keep == {i \in 1..Len(s) : s[i] \notin UnicodeSpace}
        t    == IF keep = {} THEN <<>> ELSE SubSeq(s, Min(keep), Max(keep))
    IN  ToLower(t)

\* the sections for which at least one of the three rules holds
Matching(q) ==
    {i \in 1..Len(structure.Sections) :
        LET title == ToLower(structure.Sections[i].Title)
            path  == ToLower(structure.Sections[i].FilePath)
        IN  \/ title = q
            \/ \E k \in 0..Len(path) : SubSeq(path, k + 1, Len(path)) = q
            \/ \E k, m \in 0..Len(title) : SubSeq(title, k + 1, m) = q}

\* C16: FindSection returns the first section in list order for which,
\* after trimming the query and folding case, the title equals the query,
\* the file path ends with it or the title contains it; it returns nil
\* exactly when no section satisfies any of the three rules.
C16_FirstMatchingSection ==
    FindDone =>
        LET M == Matching(Folded(ret.query))
        IN  /\ ret.found = Nil <=> M = {}
            /\ M # {} =>
                  /\ ret.found.index = Min(M)
                  /\ ret.found.section = structure.Sections[Min(M)]

\* a padded upper-case query found in the second section by its title
\* only, the first section matching no rule
C16_Witness ==
    /\ FindDone
    /\ ret.query = <<" ", "A", " ">>
    /\ ret.found # Nil
    /\ ret.found.index = 2
    /\ ret.found.section.Title = <<"a", " ", "b">>
    /\ ret.found.section.FilePath = AbsPathOf(2)

DiffDone == pc = "done" /\ op = "DiffCompiled"

\* the two label lines generateUnifiedDiff always writes
LabelLines ==
    <<"-", "-", "-", " ">> \o OldCommitShort \o <<"\n">>
    \o <<"+", "+", "+", " ">> \o NewCommitShort \o <<"\n">>

\* C19 as stated: diffing a rendering against an identical copy of itself
\* yields HasChanges = false, no section change and an empty reduced diff.
C19_IdenticalEmptyDiff ==
    (DiffDone /\ ret.old = ret.new)
        => /\ ~ret.HasChanges
           /\ ret.SectionChanges = <<>>
           /\ ret.UnifiedDiff = <<>>

\* C19 amended: diffing a rendering against an identical copy of itself
\* yields HasChanges = false, no section change, and a reduced diff that
\* holds the two label lines ("--- old", "+++ new") and no line after them.
C19_IdenticalLabelsOnly ==
    (DiffDone /\ ret.old = ret.new)
        => /\ ~ret.HasChanges
           /\ ret.SectionChanges = <<>>
           /\ ret.UnifiedDiff = LabelLines

\* a rendering of a heading and a body line was diffed against its copy
C19_Witness ==
    /\ DiffDone
    /\ fs[Root] = <<<<"#", " ", "A">>, <<"a">>>>
    /\ fs[Worktree] = fs[Root]
    /\ ret.old = FileContent(fs[Root])
    /\ ret.new = ret.old

\* the lines of a text, its last line with or without its line end
LinesIn(text) ==
    CountNewlines(text)
    + (IF text # <<>> /\ text[Len(text)] # "\n" THEN 1 ELSE 0)

\* the lines of the diffs of one type of a line-by-line diff
LinesOfType(diffs, type) ==
    LET sum[k \in 0..Len(diffs)] ==
            IF k = 0 THEN 0
            ELSE sum[k - 1] + (IF diffs[k].Type = type
                               THEN LinesIn(diffs[k].Text) ELSE 0)
    IN  sum[Len(diffs)]

\* the changes reported for a title
ChangesOf(title) ==
    {k \in 1..Len(ret.SectionChanges) :
        ret.SectionChanges[k].SectionTitle = title}

\* C20: a section present in both renderings with differing bodies gets
\* exactly one change, of type "modified", whose AddedLines and RemovedLines
\* are the numbers of lines a line-based diff of the two bodies inserts and
\* deletes (appending k whole lines gives k added and 0 removed).
C20_LineBasedCounts ==
    DiffDone =>
        LET oldSections == extractSectionBlocks(ret.old)
            newSections == extractSectionBlocks(ret.new)
        IN  \A title \in DOMAIN oldSections \cap DOMAIN newSections :
                oldSections[title] # newSections[title]
                    => /\ Cardinality(ChangesOf(title)) = 1
                       /\ \A k \in ChangesOf(title) :
                            LET diffs == LineDiff(oldSections[title],
                                                  newSections[title])
                            IN  ret.SectionChanges[k] =
                                    SectionChange(title, "modified",
                                        LinesOfType(diffs, DiffInsert),
                                        LinesOfType(diffs, DiffDelete))

\* ---- C21: a section appended or dropped at the end
\* the lines of a rendering, every one of which ends with a line end
RenderedLines(text) ==
    LET parts == Split(text)
    IN  SubSeq(parts, 1, Len(parts) - 1)

\* the title of the first line long has after the lines of short
AppendedTitle(short, long) ==
    LET line == RenderedLines(long)[Len(RenderedLines(short)) + 1]
    IN  Drop(line, LeadingRun(line, {"#", " "}))

\* the lines long has after that line
AppendedBodyLines(short, long) ==
    Len(RenderedLines(long)) - Len(RenderedLines(short)) - 1

\* long is short followed by one more section: a heading line whose title
\* short does not have, and then body lines only
AppendsSection(short, long) ==
    LET s == RenderedLines(short)
        l == RenderedLines(long)
    IN  /\ Len(l) > Len(s)
        /\ SubSeq(l, 1, Len(s)) = s
        /\ HasPrefix(l[Len(s) + 1], <<"#">>)
        /\ AppendedTitle(short, long) # <<>>
        /\ AppendedTitle(short, long) \notin DOMAIN extractSectionBlocks(short)
        /\ \A k \in (Len(s) + 2)..Len(l) : ~HasPrefix(l[k], <<"#">>)

\* C21: diffing a rendering against the same rendering with one new section
\* appended at the end yields exactly one section change, "added" for the new
\* section with AddedLines the number of lines of its body, and no change for
\* the sections that were there; a section dropped from the end is reported
\* "removed" with RemovedLines the number of lines of its body.
C21_AppendedSectionCounted ==
    DiffDone =>
        /\ AppendsSection(ret.old, ret.new)
            => ret.SectionChanges =
                 <<SectionChange(AppendedTitle(ret.old, ret.new), "added",
                                 AppendedBodyLines(ret.old, ret.new), 0)>>
        /\ AppendsSection(ret.new, ret.old)
            => ret.SectionChanges =
                 <<SectionChange(AppendedTitle(ret.new, ret.old), "removed",
                                 0, AppendedBodyLines(ret.new, ret.old))>>

\* ---- C22: one change per title, typed by where the title occurs
\* the types of the changes reported for a title
TypesOf(title) == {ret.SectionChanges[k].ChangeType : k \in ChangesOf(title)}

FormatDone == pc = "done" /\ op = "FormatDiffResult"

\* the line FormatDiffResult always starts with, and the empty line after it
ComparingLines ==
    <<"C", "o", "m", "p", "a", "r", "i", "n", "g", ":", " ">> \o OldCommitShort \o <<" ", "-", ">", " ">> \o NewCommitShort \o <<"\n", "\n">>

\* C23: HasChanges is false exactly when the old and the new rendering are
\* the same text, and it alone gates the output: when it is false
\* FormatDiffResult prints the "Comparing" line and "No changes in compiled
\* output." and nothing else (no changed file, no section change, no diff
\* body, whatever the result holds), and when it is true the output ends with
\* "Diff:" and the whole reduced diff.
C23_HasChangesGatesOutput ==
    /\ DiffDone => (~ret.HasChanges <=> ret.old = ret.new)
    /\ FormatDone =>
        IF ~ret.result.HasChanges
        THEN ret.out = ComparingLines \o <<"N", "o", " ", "c", "h", "a", "n", "g", "e", "s", " ", "i", "n", " ", "c", "o", "m", "p", "i", "l", "e", "d", " ", "o", "u", "t", "p", "u", "t", ".", "\n">>
        ELSE /\ HasPrefix(ret.out, ComparingLines)
             /\ HasSuffix(ret.out, <<"D", "i", "f", "f", ":", "\n">> \o ret.result.UnifiedDiff)

\* an unchanged rendering with a changed source file and the label lines as
\* its diff was formatted
C23_Witness ==
    /\ FormatDone
    /\ ~ret.result.HasChanges
    /\ ret.result.ChangedFiles # <<>>
    /\ ret.result.UnifiedDiff = LabelLines
    /\ fs[Root] # <<>>

\* ---- C24: the priority of .spec.yaml and the conventions
FindSpecDone == pc = "done" /\ op = "FindSpecInDir"

\* a file, or a directory that holds one, exists at the absolute path p
PathExists(p) ==
    \/ p = WorkDir
    \/ \E f \in DOMAIN fs : Len(f) >= Len(p) /\ SubSeq(f, 1, Len(p)) = p

\* the absolute path a spec key of a .spec.yaml stands for in the current
\* directory
ConfiguredTarget(spec) ==
    CASE spec = <<".", "custom.adoc">>           -> WorkDir \o <<"custom.adoc">>
      [] spec = <<"nonexistent.adoc">>           -> WorkDir \o <<"nonexistent.adoc">>
      [] spec = WorkDir \o <<"custom.adoc">>     -> WorkDir \o <<"custom.adoc">>
      [] spec = <<"spec", "..", "custom.adoc">>  -> WorkDir \o <<"custom.adoc">>
      [] spec = <<>>                             -> WorkDir

\* C24: FindSpecInDir returns an absolute path, in strict priority order: a
\* .spec.yaml that parses decides alone (its configured path when that
\* exists, else an error with no fallback to the conventions); otherwise the
\* first existing of MANIFEST.adoc, spec/MANIFEST.adoc and plan/MANIFEST.adoc
\* is returned, and an error when none exists.
C24_SpecYamlThenConventions ==
    FindSpecDone =>
        LET yaml == WorkDir \o <<".spec.yaml">>
            root == WorkDir \o <<"MANIFEST.adoc">>
            spec == WorkDir \o <<"spec", "MANIFEST.adoc">>
            plan == WorkDir \o <<"plan", "MANIFEST.adoc">>
            found(p) == ~err /\ ret.path = p
        IN  /\ ~err => IsAbs(ret.path)
            /\ IF yaml \in DOMAIN fs /\ "spec" \in DOMAIN fs[yaml]
               THEN IF PathExists(ConfiguredTarget(fs[yaml].spec))
                    THEN found(ConfiguredTarget(fs[yaml].spec))
                    ELSE err
               ELSE IF root \in DOMAIN fs THEN found(root)
               ELSE IF spec \in DOMAIN fs THEN found(spec)
               ELSE IF plan \in DOMAIN fs THEN found(plan)
               ELSE err

\* the current directory held MANIFEST.adoc and a .spec.yaml naming a file
\* that does not exist, and the call returned an error
C24_Witness ==
    /\ FindSpecDone
    /\ ret.dir = <<".">>
    /\ WorkDir \o <<"MANIFEST.adoc">> \in DOMAIN fs
    /\ WorkDir \o <<".spec.yaml">> \in DOMAIN fs
    /\ fs[WorkDir \o <<".spec.yaml">>] = [spec |-> <<"nonexistent.adoc">>]
    /\ err

\* ---- C25: the order of versions
CheckDone == pc = "done" /\ op = "CheckForUpdate"

\* latest is a higher x.y.z version than current, part by part as numbers
SemverGreater(latest, current) ==
    LET RECURSIVE Numbers(_, _)
        Numbers(s, n) ==
            IF s = <<>> THEN <<n>>
            ELSE IF Head(s) = "." THEN <<n>> \o Numbers(Tail(s), 0)
            ELSE Numbers(Tail(s),
                         10 * n + CHOOSE d \in 0..9 :
                                      <<"0", "1", "2", "3", "4",
                                        "5", "6", "7", "8", "9">>[d + 1] = Head(s))
        l == Numbers(latest, 0)
        c == Numbers(current, 0)
    IN  \E i \in 1..3 : /\ l[i] > c[i]
                        /\ \A j \in 1..(i - 1) : l[j] = c[j]

\* the latest version a finished call worked with: the cache entry
LatestSeen == fs[<<"/", "home", ".cca-version-check">>]

\* C25: isNewer compares x.y.z versions part by part as numbers, so
\* CheckForUpdate returns the latest version exactly when it is a strictly
\* higher version than the current one (1.10.0 is newer than 1.9.0 and not
\* the other way round), and the empty string for a "dev" build.
C25_NumericVersionOrder ==
    CheckDone =>
        /\ ret.currentVersion = <<"d", "e", "v">> => ret.out = <<>>
        /\ ret.out # <<>> => SemverGreater(ret.out, ret.currentVersion)
        /\ (/\ ret.currentVersion # <<"d", "e", "v">>
            /\ <<"/", "home", ".cca-version-check">> \in DOMAIN fs
            /\ (ret.fresh \/ ret.fetched # <<>>))
            => (ret.out = LatestSeen
                    <=> SemverGreater(LatestSeen, ret.currentVersion))

\* ---- C26: the temporary worktree is removed on every exit path
\* the steps of DiffCompiled before CreateWorktree
EarlySteps ==
    {"IsGitRepository", "GetCurrentCommit", "ResolveCommit", "GetChangedFiles",
     "Compile current"}

\* C26: when DiffCompiled has returned, no temporary directory is left. A
\* worktree that CreateWorktree made was removed by RemoveWorktree, both
\* when the call succeeded and when the old spec failed to compile; when
\* CreateWorktree failed after making its directory, CreateWorktree removed
\* the directory and RemoveWorktree did not run; and when an earlier step
\* failed no directory was made. A worktree exists only inside the call.
C26_WorktreeRemovedOnReturn ==
    /\ \A p \in DOMAIN fs : fs[p] = "worktree" => pc \in {"Compile", "return"}
    /\ (pc = "done" /\ op = "DiffCompiled") =>
        /\ DOMAIN fs = {}
        /\ stack = <<>>
        /\ ret.failing \in {"none", "Compile"}
            => /\ Cardinality(visited) = 1
               /\ \A p \in visited : files = <<[by |-> "RemoveWorktree", path |-> p]>>
        /\ ret.failing = "worktree add"
            => /\ Cardinality(visited) = 1
               /\ \A p \in visited : files = <<[by |-> "CreateWorktree", path |-> p]>>
        /\ ret.failing \in EarlySteps \cup {"MkdirTemp"}
            => visited = {} /\ files = <<>>

\* a second run made a worktree, failed to compile the old spec, and
\* returned the error after RemoveWorktree had run
C26_Witness ==
    /\ pc = "done"
    /\ op = "DiffCompiled"
    /\ err
    /\ ret.failing = "Compile"
    /\ idx = 2
    /\ files = <<[by |-> "RemoveWorktree", path |-> <<"/", "tmp", 2>>]>>

\* ---- C27: no section twice in the section list
\* C27: in a structure built by BuildStructure no two entries of the section
\* list have the same file and the same StartLine, whatever the include
\* graph (a cycle back to the manifest, a file included by two directives).
C27_NoSectionTwice ==
    (StructureDone /\ ~err) =>
        \A p, q \in 1..Len(ret.Sections) :
            (/\ ret.Sections[p].FilePath = ret.Sections[q].FilePath
             /\ ret.Sections[p].StartLine = ret.Sections[q].StartLine)
                => p = q

\* ---- C28: the section title of a usage
\* the title of the section of the manifest whose line span holds line n,
\* as the Section Scanner sees the sections; empty before the first heading
EnclosingTitle(n) ==
    LET sections == ExtractSectionsFromFile(Root, fs[Root])
        holds    == {k \in 1..Len(sections) :
                        /\ sections[k].StartLine <= n
                        /\ (sections[k].EndLine = -1 \/ n <= sections[k].EndLine)}
    IN  IF holds = {} THEN <<>> ELSE sections[Min(holds)].Title

\* C28: the SectionTitle of every attribute usage is the Title of the section
\* (as ExtractSectionsFromFile returns the sections of the file) whose line
\* span holds the usage line, and empty only before the first heading; a
\* line that begins with "=" without being a heading does not change it.
C28_UsageSectionAgrees ==
    (pc = "done" /\ op \in {"FindAttributeUsages", "FindAllAttributeUsages"}) =>
        \A j \in 1..Len(ret.usages) :
            ret.usages[j].SectionTitle = EnclosingTitle(ret.usages[j].Line)

\* ---- C29: every changed line is in the reduced diff
\* the lines of text, each after the mark
RECURSIVE MarkedLines(_, _)
MarkedLines(mark, lines) ==
    IF lines = <<>> THEN <<>>
    ELSE <<mark>> \o Head(lines) \o <<"\n">> \o MarkedLines(mark, Tail(lines))

\* the deleted lines of a line diff after "-" and the inserted ones after
\* "+", blank lines too, in the order of the diff
RECURSIVE ChangedLinesOf(_)
ChangedLinesOf(diffs) ==
    IF diffs = <<>> THEN <<>>
    ELSE (IF Head(diffs).Type = DiffDelete
          THEN MarkedLines("-", RenderedLines(Head(diffs).Text))
          ELSE IF Head(diffs).Type = DiffInsert
          THEN MarkedLines("+", RenderedLines(Head(diffs).Text))
          ELSE <<>>)
         \o ChangedLinesOf(Tail(diffs))

\* C29: whenever the two renderings differ, the reduced diff holds at least
\* one "-" or "+" line: after the label lines it shows every deleted line of
\* the old rendering as a "-" line and every inserted line of the new one as
\* a "+" line, blank lines included, and no unchanged line.
C29_EveryChangedLineShown ==
    (DiffDone /\ ret.HasChanges) =>
        /\ ret.UnifiedDiff # LabelLines
        /\ ret.UnifiedDiff = LabelLines \o ChangedLinesOf(LineDiff(ret.old, ret.new))

\* ---- C30: the section changes cover every change
\* C30: whenever the two renderings differ, analyzeSectionChanges reports at
\* least one section change, also when they differ only before the first
\* heading, in the earlier of two sections with the same title, or under a
\* heading whose title is empty.
C30_ChangeIsReported ==
    (DiffDone /\ ret.HasChanges) => ret.SectionChanges # <<>>

====
